---- MODULE Spec2Model ----
(***************************************************************************)
(* Query-processing pipeline of the assistant: Router, Weather Resolution, *)
(* Retrieval Resolution and Response Synthesis over one AssistantState,    *)
(* driven by AssistantGraph.process_query.                                 *)
(*                                                                         *)
(* Strings are sequences of tokens, so that f-string formatting is         *)
(* concatenation (\o).  Texts the code inspects character by character     *)
(* (LLM answers that are stripped, lower-cased or searched for a           *)
(* substring) are sequences of one-character tokens.                       *)
(* Optional[T] is a sequence of length at most one: None is <<>> and a     *)
(* present value v is <<v>>.                                               *)
(***************************************************************************)
EXTENDS Integers, Sequences, FiniteSets, TLC

VARIABLES
    pc,        \* where the turn (or the call of a single stage) stands
    state,     \* the AssistantState threaded through the stages
    entry,     \* the state the last stage was entered with
    args,      \* the arguments of process_query
    calls,     \* the external calls made so far (and the fallbacks taken
               \* in their place), in order
    raised,    \* the exception that left the last stage, None when none did
    stages,    \* the stages run so far, in order
    decision,  \* the targets computed by the next-node functions, in order
    ret,       \* what a function called on its own returned, None before
    clock      \* the elapsed times the stages of the turn measured, in order

vars ==
    <<pc, state, entry, args, calls, raised, stages, decision, ret, clock>>

(***************************************************************************)
(* Bounds of the model                                                     *)
(***************************************************************************)
\* processing times are drawn from 0..MaxElapsed
MaxElapsed == 1
\* message histories given to a stage called on its own have at most
\* MaxHistory messages
MaxHistory == 2

(***************************************************************************)
(* Optional values and strings                                             *)
(***************************************************************************)
None == <<>>

Some(v) == <<v>>

EmptyStr == <<>>

\* F applied to the value of v, with v worked out once
Once(v, F(_)) == CHOOSE out \in {F(given) : given \in {v}} : TRUE

\* Python truthiness of an Optional[str]: None and "" are falsy
Truthy(o) == o # None /\ o[1] # EmptyStr

\* "needle in text"
RECURSIVE Contains(_, _)
Contains(text, needle) ==
    IF Len(text) < Len(needle) THEN FALSE
    ELSE IF SubSeq(text, 1, Len(needle)) = needle THEN TRUE
    ELSE Contains(Tail(text), needle)

IsSpace(c) == c \in {" ", "\n", "\t"}

RECURSIVE LStrip(_)
LStrip(text) ==
    IF text # <<>> /\ IsSpace(Head(text)) THEN LStrip(Tail(text)) ELSE text

RECURSIVE RStrip(_)
RStrip(text) ==
    IF text # <<>> /\ IsSpace(text[Len(text)])
    THEN RStrip(SubSeq(text, 1, Len(text) - 1))
    ELSE text

\* str.strip()
Strip(text) == Once(text, LAMBDA given : RStrip(LStrip(given)))

UpperAlpha ==
    <<"A", "B", "C", "D", "E", "F", "G", "H", "I", "J", "K", "L", "M",
      "N", "O", "P", "Q", "R", "S", "T", "U", "V", "W", "X", "Y", "Z">>

LowerAlpha ==
    <<"a", "b", "c", "d", "e", "f", "g", "h", "i", "j", "k", "l", "m",
      "n", "o", "p", "q", "r", "s", "t", "u", "v", "w", "x", "y", "z">>

LowerChar(c) ==
    IF \E i \in 1..Len(UpperAlpha) : UpperAlpha[i] = c
    THEN LowerAlpha[CHOOSE i \in 1..Len(UpperAlpha) : UpperAlpha[i] = c]
    ELSE c

\* str.lower()
Lower(text) ==
    Once(text, LAMBDA given :
                   [i \in 1..Len(given) |-> LowerChar(given[i])])

(***************************************************************************)
(* app/graph/state.py                                                      *)
(***************************************************************************)
QueryType == [WEATHER |-> "weather", RAG |-> "rag", UNKNOWN |-> "unknown"]

MessageRole == [USER |-> "user", ASSISTANT |-> "assistant", SYSTEM |-> "system"]

\* Message(role, content); the wall-clock timestamp is read by no stage
Message(role, content) == [role |-> role, content |-> content]

\* AssistantState(current_query, session_id, user_id, error_message) with
\* the defaults of the other fields
AssistantState(query, session_id, user_id, error_message) ==
    [messages        |-> <<>>,
     current_query   |-> query,
     query_type      |-> QueryType.UNKNOWN,
     weather_data    |-> None,
     rag_result      |-> None,
     error_message   |-> error_message,
     processing_time |-> None,
     session_id      |-> session_id,
     user_id         |-> user_id]

\* a message put in front of the list
add_message_Prepend(s, role, content) ==
    [s EXCEPT !.messages = <<Message(role, content)>> \o @]

add_message(s, role, content) ==
    [s EXCEPT !.messages = Append(@, Message(role, content))]

RECURSIVE LastWithRole(_, _)
\* reversed(messages) scan: content of the last message with the role
LastWithRole(messages, role) ==
    IF messages = <<>> THEN None
    ELSE IF messages[Len(messages)].role = role
         THEN Some(messages[Len(messages)].content)
         ELSE LastWithRole(SubSeq(messages, 1, Len(messages) - 1), role)

\* the scan run forwards: content of the first USER message
get_last_user_message_First(s) ==
    LET users == SelectSeq(s.messages,
                           LAMBDA msg : msg.role = MessageRole.USER)
    IN  IF users = <<>> THEN None ELSE Some(users[1].content)

get_last_user_message(s) == LastWithRole(s.messages, MessageRole.USER)

\* the reset that forgets error_message
clear_processing_data_KeepError(s) ==
    [s EXCEPT !.weather_data = None, !.rag_result = None,
              !.processing_time = None]

clear_processing_data(s) ==
    [s EXCEPT !.weather_data = None, !.rag_result = None,
              !.error_message = None, !.processing_time = None]

(***************************************************************************)
(* External collaborators: every call has an outcome, ok with a value or   *)
(* failed with a cause.                                                    *)
(***************************************************************************)
Ok(v) == [ok |-> TRUE, val |-> v]

Fail(cause) == [ok |-> FALSE, val |-> cause]

\* an entry of the call log: the call, whether it succeeded and what it gave
Call(name, outcome) == [call |-> name, ok |-> outcome.ok, val |-> outcome.val]

\* a call that is handed the query
CallOn(name, query, outcome) ==
    [call |-> name, ok |-> outcome.ok, val |-> outcome.val, query |-> query]

\* result of a stage body: the state it leaves, the exception leaving it
\* (None when it returns) and the external calls it made
Result(s, exc, cs) == [state |-> s, exc |-> exc, calls |-> cs]

(***************************************************************************)
(* app/interfaces/llm.py                                                   *)
(***************************************************************************)
\* generate_response: the client's content, or any client failure
\* re-raised with a prefix
generate_response(client) ==
    IF client.ok THEN client
    ELSE Fail(<<"Error generating LLM response: ">> \o client.val)

\* classify_query: the answer stripped and lower-cased
classify_query(client) ==
    LET r == generate_response(client)
    IN  IF r.ok THEN Ok(Lower(Strip(r.val))) ELSE r

summarize_weather_data(client) == generate_response(client)

summarize_rag_results(client) == generate_response(client)

(***************************************************************************)
(* app/graph/nodes/router.py                                               *)
(***************************************************************************)
s_weather == <<"w", "e", "a", "t", "h", "e", "r">>

s_rag == <<"r", "a", "g">>

\* the fallback taken from the last message of any role
ResolveQuery_AnyMessage(s) ==
    IF s.current_query # EmptyStr THEN Some(s.current_query)
    ELSE IF s.messages = <<>> THEN None
    ELSE Some(s.messages[Len(s.messages)].content)

\* currentQuery, else the last USER message
ResolveQuery(s) ==
    IF s.current_query # EmptyStr THEN Some(s.current_query)
    ELSE get_last_user_message(s)

\* a plausible slip: "rag" tested before "weather"
SelectQueryType_RagFirst(classification) ==
    IF Contains(classification, s_rag) THEN QueryType.RAG
    ELSE IF Contains(classification, s_weather) THEN QueryType.WEATHER
    ELSE QueryType.RAG

\* a plausible slip: an unrecognised classification is left UNKNOWN
SelectQueryType_UnknownDefault(classification) ==
    IF Contains(classification, s_weather) THEN QueryType.WEATHER
    ELSE IF Contains(classification, s_rag) THEN QueryType.RAG
    ELSE QueryType.UNKNOWN

\* the decision rule of route_query
SelectQueryType(classification) ==
    IF Contains(classification, s_weather) THEN QueryType.WEATHER
    ELSE IF Contains(classification, s_rag) THEN QueryType.RAG
    ELSE QueryType.RAG

\* a plausible slip: the classification is announced as an ASSISTANT message
ClassificationMessage_Assistant(s) ==
    add_message(s, MessageRole.ASSISTANT,
                <<"Query classified as: ", s.query_type>>)

\* the SYSTEM message of a successful classification
ClassificationMessage(s) ==
    add_message(s, MessageRole.SYSTEM,
                <<"Query classified as: ", s.query_type>>)

\* a plausible slip: the elapsed time is computed but never stored
RecordRouterTime_Skip(s, dt) == s

\* route_query, line 36: processing_time = time.time() - start_time
RecordRouterTime(s, dt) == [s EXCEPT !.processing_time = Some(dt)]

\* the try block of route_query
RouteQueryTry(s, llm, dt) ==
    LET query == ResolveQuery(s)
    IN  IF ~Truthy(query)
        THEN Result([s EXCEPT !.error_message = Some(<<"No query provided">>)],
                    None, <<>>)
        ELSE LET c   == classify_query(llm)
                 cs  == <<CallOn("llm.classify_query", query[1], c)>>
             IN  IF ~c.ok THEN Result(s, Some(c.val), cs)
                 ELSE LET s1 == [s EXCEPT !.query_type = SelectQueryType(c.val)]
                          s2 == ClassificationMessage(s1)
                          s3 == RecordRouterTime(s2, dt)
                      IN  Result(s3, None, cs)

\* a plausible slip: the except clause forgets to reset query_type
RouteQueryExcept_KeepType(r) ==
    Result([r.state EXCEPT
               !.error_message = Some(<<"Error in router node: ">> \o r.exc[1])],
           None, r.calls)

\* the except clause of route_query
RouteQueryExcept(r) ==
    Result([r.state EXCEPT
               !.error_message = Some(<<"Error in router node: ">> \o r.exc[1]),
               !.query_type = QueryType.UNKNOWN],
           None, r.calls)

\* a plausible slip: no except clause at all
route_query_NoExcept(s, llm, dt) == RouteQueryTry(s, llm, dt)

route_query(s, llm, dt) ==
    LET r == RouteQueryTry(s, llm, dt)
    IN  IF r.exc # None THEN RouteQueryExcept(r) ELSE r

(***************************************************************************)
(* Next-node decision: app/graph/__init__.py and app/graph/utils.py        *)
(***************************************************************************)
\* a plausible slip: the error test comes after the type tests
RouteToNextNode_TypeFirst(s) ==
    IF s.query_type = QueryType.WEATHER THEN "weather_node"
    ELSE IF s.query_type = QueryType.RAG THEN "rag_node"
    ELSE "final_response"

\* the conditional edges with the two resolvers swapped
RouteToNextNode_Swapped(s) ==
    IF Truthy(s.error_message) THEN "final_response"
    ELSE IF s.query_type = QueryType.WEATHER THEN "rag_node"
    ELSE IF s.query_type = QueryType.RAG THEN "weather_node"
    ELSE "final_response"

\* AssistantGraph._route_to_next_node
RouteToNextNode(s) ==
    IF Truthy(s.error_message) THEN "final_response"
    ELSE IF s.query_type = QueryType.WEATHER THEN "weather_node"
    ELSE IF s.query_type = QueryType.RAG THEN "rag_node"
    ELSE "final_response"

\* utils.get_next_node
get_next_node(s) ==
    IF Truthy(s.error_message) THEN "final_response"
    ELSE IF s.query_type = QueryType.WEATHER THEN "weather_node"
    ELSE IF s.query_type = QueryType.RAG THEN "rag_node"
    ELSE "final_response"

(***************************************************************************)
(* app/graph/tools/weather.py                                              *)
(***************************************************************************)
s_none == <<"n", "o", "n", "e">>

s_no_location == <<"n", "o", " ", "l", "o", "c", "a", "t", "i", "o", "n">>

s_unknown == <<"u", "n", "k", "n", "o", "w", "n">>

s_mumbai == <<"m", "u", "m", "b", "a", "i">>

s_delhi == <<"d", "e", "l", "h", "i">>

s_bangalore == <<"b", "a", "n", "g", "a", "l", "o", "r", "e">>

s_hyderabad == <<"h", "y", "d", "e", "r", "a", "b", "a", "d">>

s_chennai == <<"c", "h", "e", "n", "n", "a", "i">>

s_kolkata == <<"k", "o", "l", "k", "a", "t", "a">>

s_pune == <<"p", "u", "n", "e">>

s_ahmedabad == <<"a", "h", "m", "e", "d", "a", "b", "a", "d">>

s_jaipur == <<"j", "a", "i", "p", "u", "r">>

s_london == <<"l", "o", "n", "d", "o", "n">>

s_new_york == <<"n", "e", "w", " ", "y", "o", "r", "k">>

s_tokyo == <<"t", "o", "k", "y", "o">>

s_paris == <<"p", "a", "r", "i", "s">>

s_beijing == <<"b", "e", "i", "j", "i", "n", "g">>

s_sydney == <<"s", "y", "d", "n", "e", "y">>

\* _extract_location_regex, lines 70-86
weather_keywords ==
    <<<<"w", "e", "a", "t", "h", "e", "r">>,
      <<"t", "e", "m", "p", "e", "r", "a", "t", "u", "r", "e">>,
      <<"f", "o", "r", "e", "c", "a", "s", "t">>,
      <<"c", "l", "i", "m", "a", "t", "e">>,
      <<"h", "o", "t">>,
      <<"c", "o", "l", "d">>,
      <<"r", "a", "i", "n">>,
      <<"s", "n", "o", "w">>,
      <<"s", "u", "n", "n", "y">>,
      <<"c", "l", "o", "u", "d", "y">>,
      <<"w", "i", "n", "d", "y">>,
      <<"h", "u", "m", "i", "d", "i", "t", "y">>,
      <<"c", "o", "n", "d", "i", "t", "i", "o", "n", "s">>,
      <<"s", "a", "f", "e">>,
      <<"t", "r", "a", "v", "e", "l">>>>

\* str.replace(old, ""): every occurrence of old removed, left to right
RECURSIVE Remove(_, _)
Remove(text, old) ==
    IF Len(text) < Len(old) THEN text
    ELSE IF SubSeq(text, 1, Len(old)) = old
         THEN Remove(SubSeq(text, Len(old) + 1, Len(text)), old)
         ELSE <<Head(text)>> \o Remove(Tail(text), old)

\* lines 90-91: the keywords removed one after the other, in list order
RECURSIVE RemoveKeywords(_, _)
RemoveKeywords(text, keywords) ==
    IF keywords = <<>> THEN text
    ELSE RemoveKeywords(Remove(text, Head(keywords)), Tail(keywords))

\* re.sub(r"\s+", " ", text): every run of blanks becomes one space
RECURSIVE CollapseSpaces(_)
CollapseSpaces(text) ==
    IF text = <<>> THEN text
    ELSE IF IsSpace(Head(text))
         THEN <<" ">> \o CollapseSpaces(LStrip(text))
         ELSE <<Head(text)>> \o CollapseSpaces(Tail(text))

\* lines 88-93: the lower-cased query without the keywords
StrippedQuery(query) ==
    Strip(CollapseSpaces(RemoveKeywords(Lower(query), weather_keywords)))

\* line 95: the strings that hold a punctuation mark only
PunctuationOnly ==
    {<<"?">>, <<"!">>, <<".">>, <<",">>, <<";">>, <<":">>, <<"\"">>, <<"'">>}

\* the word stands in the text at index i
StartsAt(text, i, word) ==
    /\ i + Len(word) - 1 <= Len(text)
    /\ SubSeq(text, i, i + Len(word) - 1) = word

\* the index after the run of blanks that starts at index j
RECURSIVE BlanksEnd(_, _)
BlanksEnd(text, j) ==
    IF j <= Len(text) /\ IsSpace(text[j]) THEN BlanksEnd(text, j + 1) ELSE j

\* the index after the run of characters other than "?" that starts at j
RECURSIVE FragmentEnd(_, _)
FragmentEnd(text, j) ==
    IF j <= Len(text) /\ text[j] # "?" THEN FragmentEnd(text, j + 1) ELSE j

\* r"\s+([^?]+)" matches at index j, the blanks ending before index w: at
\* least one blank, then at least one character other than "?" (the last
\* blank when nothing else follows)
BlanksThenFragment(text, j, w) ==
    /\ w > j
    /\ \/ (w <= Len(text) /\ text[w] # "?")
       \/ w - j >= 2

\* r"word\s+([^?]+)" matches at index i
PrepositionMatchesAt(text, i, word) ==
    /\ StartsAt(text, i, word)
    /\ BlanksThenFragment(text, i + Len(word),
                          BlanksEnd(text, i + Len(word)))

\* re.search: the leftmost index at which the pattern matches
Leftmost(at) == CHOOSE m \in at : \A n \in at : m <= n

\* the group of the match whose blanks end before index w, as long as
\* possible
PrepositionGroup(text, w) ==
    IF w <= Len(text) /\ text[w] # "?"
    THEN Some(SubSeq(text, w, FragmentEnd(text, w) - 1))
    ELSE Some(<<" ">>)

\* the group of the leftmost of the matches that start at the indices at
PrepositionGroupAmong(text, word, at) ==
    IF at = {} THEN None
    ELSE PrepositionGroup(text, BlanksEnd(text, Leftmost(at) + Len(word)))

\* re.search(r"word\s+([^?]+)", text).group(1), None without a match
PrepositionSearch(text, word) ==
    PrepositionGroupAmong(text, word,
        {i \in 1..Len(text) : PrepositionMatchesAt(text, i, word)})

\* r"([^?]+)\s+word" matches from index i up to the word at index k: at
\* least one character other than "?", then at least one blank
TrailingMatches(text, i, k, word) ==
    /\ StartsAt(text, k, word)
    /\ i <= k - 2
    /\ IsSpace(text[k - 1])
    /\ \A n \in i..(k - 2) : text[n] # "?"

\* the indices of the word at which a match that starts at index i can end
TrailingEnds(text, i, word) ==
    {k \in 1..Len(text) : TrailingMatches(text, i, k, word)}

\* the group reaches to the last word it can
TrailingGroup(text, i, ends) ==
    Some(SubSeq(text, i, (CHOOSE m \in ends : \A n \in ends : n <= m) - 2))

\* the group of the leftmost of the matches that start at the indices at
TrailingGroupAmong(text, word, at) ==
    IF at = {} THEN None
    ELSE TrailingGroup(text, Leftmost(at),
                       TrailingEnds(text, Leftmost(at), word))

\* re.search(r"([^?]+)\s+word", text).group(1), None without a match
TrailingSearch(text, word) ==
    TrailingGroupAmong(text, word,
        {i \in 1..Len(text) : TrailingEnds(text, i, word) # {}})

\* lines 99-108: the patterns, in the order they are tried
location_patterns ==
    <<[kind |-> "preposition", word |-> <<"t", "o">>, name |-> "to X"],
      [kind |-> "preposition", word |-> <<"a", "t">>, name |-> "at X"],
      [kind |-> "preposition", word |-> <<"i", "n">>, name |-> "in X"],
      [kind |-> "preposition", word |-> <<"n", "e", "a", "r">>,
       name |-> "near X"],
      [kind |-> "preposition", word |-> <<"a", "r", "o", "u", "n", "d">>,
       name |-> "around X"],
      [kind |-> "trailing", word |-> <<"w", "e", "a", "t", "h", "e", "r">>,
       name |-> "X weather"],
      [kind |-> "trailing",
       word |-> <<"t", "e", "m", "p", "e", "r", "a", "t", "u", "r", "e">>,
       name |-> "X temperature"],
      [kind |-> "trailing",
       word |-> <<"c", "o", "n", "d", "i", "t", "i", "o", "n", "s">>,
       name |-> "X conditions"]>>

\* line 113: match.group(1).strip()
StrippedGroup(group) == IF group = None THEN None ELSE Some(Strip(group[1]))

\* lines 111-113: the location the pattern gives, None when the pattern does
\* not match
PatternLocation(text, pattern) ==
    StrippedGroup(IF pattern.kind = "preposition"
                  THEN PrepositionSearch(text, pattern.word)
                  ELSE TrailingSearch(text, pattern.word))

\* lines 110-115: the first of the patterns whose location has more than two
\* characters; location is what the first pattern gives
RECURSIVE FirstPattern(_, _)
RECURSIVE AcceptOrNext(_, _, _)
AcceptOrNext(text, patterns, location) ==
    IF Truthy(location) /\ Len(location[1]) > 2
    THEN [location |-> location, rule |-> Head(patterns).name]
    ELSE FirstPattern(text, Tail(patterns))

FirstPattern(text, patterns) ==
    IF patterns = <<>> THEN [location |-> None, rule |-> "none"]
    ELSE AcceptOrNext(text, patterns, PatternLocation(text, Head(patterns)))

\* str.split(): the words between runs of blanks
RECURSIVE Split(_)
Split(text) ==
    LET rest == LStrip(text)
        RECURSIVE WordEnd(_)
        WordEnd(j) ==
            IF j <= Len(rest) /\ ~IsSpace(rest[j]) THEN WordEnd(j + 1) ELSE j
    IN  IF rest = <<>> THEN <<>>
        ELSE <<SubSeq(rest, 1, WordEnd(1) - 1)>>
             \o Split(SubSeq(rest, WordEnd(1), Len(rest)))

IsKeyword(word) ==
    \E n \in DOMAIN weather_keywords : weather_keywords[n] = Lower(word)

EndsWithQuestionMark(word) == word # <<>> /\ word[Len(word)] = "?"

IsUpper(c) == \E n \in DOMAIN UpperAlpha : UpperAlpha[n] = c

\* lines 131-139: the words joined to the location part from index j on
RECURSIVE FollowingWords(_, _)
FollowingWords(words, j) ==
    IF /\ j <= Len(words)
       /\ ~IsKeyword(words[j])
       /\ ~EndsWithQuestionMark(words[j])
    THEN <<" ">> \o words[j] \o FollowingWords(words, j + 1)
    ELSE <<>>

\* lines 118-142: the location parts that start at a capitalized word
RECURSIVE PotentialLocationParts(_, _)
PotentialLocationParts(words, i) ==
    IF i > Len(words) THEN <<>>
    ELSE LET word == words[i]
         IN  (IF /\ ~IsKeyword(word)
                 /\ Len(word) > 2
                 /\ IsUpper(word[1])
                 /\ ~EndsWithQuestionMark(word)
              THEN <<word \o FollowingWords(words, i + 1)>>
              ELSE <<>>)
             \o PotentialLocationParts(words, i + 1)

\* max(parts, key=len): the first of the longest parts
Longest(parts) ==
    parts[CHOOSE i \in DOMAIN parts :
              /\ \A j \in DOMAIN parts : Len(parts[j]) <= Len(parts[i])
              /\ \A j \in 1..(i - 1) : Len(parts[j]) < Len(parts[i])]

\* the queries of the model
WeatherQuery ==
    <<"W", "h", "a", "t", "'", "s", " ", "t", "h", "e", " ", "w", "e", "a",
      "t", "h", "e", "r", " ", "i", "n", " ", "L", "o", "n", "d", "o", "n",
      "?">>

DocumentQuery ==
    <<"W", "h", "a", "t", " ", "d", "o", "e", "s", " ", "t", "h", "e", " ",
      "r", "e", "p", "o", "r", "t", " ", "s", "a", "y", "?">>

\* a weather question that names no place
BareWeatherQuery == <<"W", "e", "a", "t", "h", "e", "r", "?">>

InParisQuery == <<"i", "n", " ", "P", "a", "r", "i", "s">>

ParisWeatherQuery == <<"P", "a", "r", "i", "s", " ", "w", "e", "a", "t",
                       "h", "e", "r">>

MarinaBeachQuery == <<"m", "a", "r", "i", "n", "a", " ", "b", "e", "a",
                      "c", "h", " ", "w", "e", "a", "t", "h", "e", "r">>

ExtractionQueries ==
    {WeatherQuery, DocumentQuery, BareWeatherQuery, InParisQuery,
     ParisWeatherQuery, MarinaBeachQuery,
     <<"T", "o", "k", "y", "o">>,
     <<"G", "o", " ", "t", "o", " ", "L", "A">>,
     <<"P", "u", "n", "e", " ", "w", "e", "a", "w", "e", "a", "t", "h",
       "e", "r", "t", "h", "e", "r">>,
     <<"H", "o", "w", " ", "h", "o", "t", " ", "i", "s", " ", "i", "t",
       " ", "n", "e", "a", "r", " ", " ", "N", "e", "w", " ", "D", "e",
       "l", "h", "i", " ", "t", "o", "d", "a", "y", "?">>,
     <<"I", "s", " ", "i", "t", " ", "s", "a", "f", "e", " ", "t", "o",
       " ", "t", "r", "a", "v", "e", "l", "?">>,
     <<"p", "a", "r", "i", "s", " ", "t", "e", "m", "p", "e", "r", "a",
       "t", "u", "r", "e">>,
     <<"w", "e", "a", "t", "h", "e", "r", " ", "a", "t", " ", " ", "?">>,
     <<"T", "e", "m", "p", "e", "r", "a", "t", "u", "r", "e", " ", "a",
       "r", "o", "u", "n", "d", " ", "P", "u", "n", "e">>}


\* lines 144-148: the longest of the capitalized parts, else the residual
\* string
CapitalizedOrResidual(query_lower, parts) ==
    IF parts # <<>>
    THEN [location |-> Some(Longest(parts)), rule |-> "capitalized words"]
    ELSE [location |-> Some(query_lower), rule |-> "residual"]

\* lines 110-148: what a pattern found, else the capitalized words of the
\* query, else the residual string
FoundOrScanned(query, query_lower, found) ==
    IF found.location # None THEN found
    ELSE CapitalizedOrResidual(query_lower,
                               PotentialLocationParts(Split(query), 1))

\* lines 95-148, query_lower being the query without the keywords
LocationIn(query, query_lower) ==
    IF query_lower = <<>> \/ query_lower \in PunctuationOnly
    THEN [location |-> None, rule |-> "none"]
    ELSE FoundOrScanned(query, query_lower,
                        FirstPattern(query_lower, location_patterns))

\* _extract_location_regex with the rule that gave the location: a pattern,
\* the capitalized words of the query, or the residual string
LocationByRegex(query) == LocationIn(query, StrippedQuery(query))

\* what _extract_location_regex finds in each query of the model, worked out
\* once
LocationTable ==
    {[query |-> query, found |-> LocationByRegex(query)] :
        query \in ExtractionQueries \cup {EmptyStr}}

\* the entry of the table for a query, worked out afresh for any other text
LocationFound(query) ==
    IF \E entry_of \in LocationTable : entry_of.query = query
    THEN (CHOOSE entry_of \in LocationTable : entry_of.query = query).found
    ELSE LocationByRegex(query)

\* _extract_location_regex
extract_location_regex(query) == LocationFound(query).location

\* the log of an extraction: the LLM call, then the fallback when it was
\* taken, with what it returned
ExtractionCalls(query, llm, fallback) ==
    <<CallOn("llm.extract_city", query, llm)>>
    \o (IF fallback = None THEN <<>>
        ELSE <<Call("regex_fallback", Ok(fallback[1]))>>)

\* lines 66-67: the except clause, location being what the fallback returns
ExtractionByRegex(query, llm, location) ==
    [city |-> location, calls |-> ExtractionCalls(query, llm, Some(location))]

\* the extraction with every answer of the LLM taken as a location
extract_city_from_query_KeepNone(query, llm) ==
    LET r == generate_response(llm)
    IN  IF r.ok THEN [city  |-> Some(Lower(Strip(r.val))),
                      calls |-> ExtractionCalls(query, llm, None)]
        ELSE ExtractionByRegex(query, llm, extract_location_regex(query))

\* the extraction with the answer trimmed but its case kept
extract_city_from_query_KeepCase(query, llm) ==
    LET r == generate_response(llm)
    IN  IF r.ok
        THEN LET location == Strip(r.val)
             IN  [city  |-> IF Lower(location) \in
                                {s_none, s_no_location, s_unknown, EmptyStr}
                            THEN None
                            ELSE Some(location),
                  calls |-> ExtractionCalls(query, llm, None)]
        ELSE ExtractionByRegex(query, llm, extract_location_regex(query))

\* the extraction that also falls back when the LLM names no location
extract_city_from_query_FallbackOnNone(query, llm) ==
    LET r == generate_response(llm)
    IN  IF r.ok /\ Lower(Strip(r.val)) \notin
                      {s_none, s_no_location, s_unknown, EmptyStr}
        THEN [city  |-> Some(Lower(Strip(r.val))),
              calls |-> ExtractionCalls(query, llm, None)]
        ELSE ExtractionByRegex(query, llm, extract_location_regex(query))

\* extract_city_from_query: the LLM's answer trimmed and lower-cased, None
\* for the "no location" answers; the regex fallback when the LLM call
\* fails.  The result comes with the log of the calls made
extract_city_from_query(query, llm) ==
    LET r == generate_response(llm)
    IN  IF r.ok
        THEN LET location == Lower(Strip(r.val))
             IN  [city  |-> IF location \in
                                {s_none, s_no_location, s_unknown, EmptyStr}
                            THEN None
                            ELSE Some(location),
                  calls |-> ExtractionCalls(query, llm, None)]
        ELSE ExtractionByRegex(query, llm, extract_location_regex(query))

\* coordinates are in units of 1/10000 degree, as <<latitude, longitude>>
DefaultCoordinates == <<190760, 728777>>

\* _get_coordinates_fallback, lines 179-198: the fixed table, Mumbai for any
\* other name
fallback_coordinates(city_lower) ==
        IF city_lower = s_mumbai THEN <<190760, 728777>> ELSE
        IF city_lower = s_delhi THEN <<287041, 771025>> ELSE
        IF city_lower = s_bangalore THEN <<129716, 775946>> ELSE
        IF city_lower = s_hyderabad THEN <<173850, 784867>> ELSE
        IF city_lower = s_chennai THEN <<130827, 802707>> ELSE
        IF city_lower = s_kolkata THEN <<225726, 883639>> ELSE
        IF city_lower = s_pune THEN <<185204, 738567>> ELSE
        IF city_lower = s_ahmedabad THEN <<230225, 725714>> ELSE
        IF city_lower = s_jaipur THEN <<269124, 757873>> ELSE
        IF city_lower = s_london THEN <<515074, -799>> ELSE
        IF city_lower = s_new_york THEN <<407128, -740060>> ELSE
        IF city_lower = s_tokyo THEN <<356812, 1397671>> ELSE
        IF city_lower = s_paris THEN <<488566, 23522>> ELSE
        IF city_lower = s_beijing THEN <<399087, 1163975>> ELSE
        IF city_lower = s_sydney THEN <<-338688, 1512153>> ELSE
        DefaultCoordinates

\* the table looked up with the name as given
get_coordinates_fallback_AsGiven(city) == fallback_coordinates(city)

\* _get_coordinates_fallback: the table entry of city.lower().strip()
get_coordinates_fallback(city) ==
    Once(Strip(Lower(city)), fallback_coordinates)

\* geocoding that asks a second time when the first request fails
get_latitude_longitude_Retry(city, has_key, geo) ==
    IF ~has_key
    THEN [coords |-> get_coordinates_fallback(city), calls |-> <<>>]
    ELSE LET cs == <<Call("geocoding", geo)>>
         IN  IF ~geo.ok \/ geo.val = <<>> \/ Len(geo.val[1]) < 2
             THEN [coords |-> get_coordinates_fallback(city),
                   calls  |-> cs \o cs]
             ELSE [coords |-> <<geo.val[1][2], geo.val[1][1]>>, calls |-> cs]

\* get_latitude_longitude: geo is the geocoding request's outcome, its value
\* the list of features, each the coordinates <<longitude, latitude>> (a
\* shorter list when the answer is malformed, which raises inside the try
\* block); has_key tells whether a geocoding key is configured
get_latitude_longitude(city, has_key, geo) ==
    IF ~has_key
    THEN [coords |-> get_coordinates_fallback(city), calls |-> <<>>]
    ELSE LET cs == <<Call("geocoding", geo)>>
         IN  IF ~geo.ok \/ geo.val = <<>> \/ Len(geo.val[1]) < 2
             THEN [coords |-> get_coordinates_fallback(city), calls |-> cs]
             ELSE [coords |-> <<geo.val[1][2], geo.val[1][1]>>, calls |-> cs]

\* the weather request with the coordinates it is made for
CallAt(name, coords, outcome) ==
    [call |-> name, ok |-> outcome.ok, val |-> outcome.val, coords |-> coords]

\* lines 217-243: the record built from the provider's payload
WeatherRecord(city, data) ==
    IF data.cod # 200
    THEN [error |-> <<"Weather API error: ">> \o data.message]
    ELSE [city        |-> city,
          temperature |-> data.temp,
          feels_like  |-> data.feels_like,
          humidity    |-> data.humidity,
          pressure    |-> data.pressure,
          description |-> data.description,
          wind_speed  |-> data.wind_speed,
          raw_data    |-> data]

\* the record named after the city of the coordinates that were used
get_weather_data_CityOfCoordinates(city, coords, http) ==
    [data  |-> IF ~http.ok
               THEN IF http.kind = "request"
                    THEN [error |-> <<"Network error: ">> \o http.val]
                    ELSE [error |-> <<"Weather API error: ">> \o http.val]
               ELSE WeatherRecord(IF coords = DefaultCoordinates
                                  THEN s_mumbai ELSE city, http.val),
     calls |-> <<CallAt("weather", coords, http)>>]

\* every failure reported as a provider error
get_weather_data_NoNetworkError(city, coords, http) ==
    [data  |-> IF ~http.ok
               THEN [error |-> <<"Weather API error: ">> \o http.val]
               ELSE WeatherRecord(city, http.val),
     calls |-> <<CallAt("weather", coords, http)>>]

\* get_weather_data: http is the weather request's outcome.  A failure
\* carries kind "request" (requests.exceptions.RequestException) or "other";
\* an answer carries the provider's payload.  The record comes with the log
\* of the one request made
get_weather_data(city, coords, http) ==
    [data  |-> IF ~http.ok
               THEN IF http.kind = "request"
                    THEN [error |-> <<"Network error: ">> \o http.val]
                    ELSE [error |-> <<"Weather API error: ">> \o http.val]
               ELSE WeatherRecord(city, http.val),
     calls |-> <<CallAt("weather", coords, http)>>]

\* lines 253-259: e is what extract_city_from_query returned
WeatherForCity(e, x) ==
    IF ~Truthy(e.city) THEN [data |-> None, calls |-> e.calls]
    ELSE LET g == get_latitude_longitude(e.city[1], x.has_key, x.geo)
             w == get_weather_data(e.city[1], g.coords, x.http)
         IN  [data  |-> Some(w.data),
              calls |-> e.calls \o g.calls \o w.calls]

\* get_weather_for_query: None when no city is found, else the record of
\* get_weather_data; x holds the outcomes of the external calls
get_weather_for_query(query, x) ==
    WeatherForCity(extract_city_from_query(query, x.extract), x)

(***************************************************************************)
(* app/graph/nodes/weather.py                                              *)
(***************************************************************************)
\* WeatherData(...) built from the tool's record
WeatherData(weather_data) ==
    [city        |-> weather_data.city,
     temperature |-> weather_data.temperature,
     description |-> weather_data.description,
     humidity    |-> weather_data.humidity,
     wind_speed  |-> weather_data.wind_speed,
     pressure    |-> weather_data.pressure,
     raw_data    |-> weather_data]

\* the stage's time added to the time recorded before it
RecordWeatherTime_Cumulative(s, dt) ==
    [s EXCEPT !.processing_time =
                  Some(dt + (IF s.processing_time = None THEN 0
                             ELSE s.processing_time[1]))]

\* process_weather_query, line 54: processing_time = time.time() - start_time
RecordWeatherTime(s, dt) == [s EXCEPT !.processing_time = Some(dt)]

\* the try block of process_weather_query
ProcessWeatherTry(s, x) ==
    LET query == ResolveQuery(s)
    IN  IF ~Truthy(query)
        THEN Result([s EXCEPT !.error_message =
                        Some(<<"No query provided for weather processing">>)],
                    None, <<>>)
        ELSE
        LET t == get_weather_for_query(query[1], x)
        IN  IF t.data = None
            THEN Result([s EXCEPT !.error_message =
                            Some(<<"Could not extract city name from query">>)],
                        None, t.calls)
            ELSE IF "error" \in DOMAIN t.data[1]
            THEN Result([s EXCEPT !.error_message =
                            Some(<<"Weather API error: ">> \o t.data[1].error)],
                        None, t.calls)
            ELSE
            LET s1 == [s EXCEPT !.weather_data = Some(WeatherData(t.data[1]))]
                r  == summarize_weather_data(x.summary)
                cs == t.calls \o <<Call("llm.summarize_weather_data", r)>>
            IN  IF ~r.ok THEN Result(s1, Some(r.val), cs)
                ELSE LET s2 == add_message(s1, MessageRole.ASSISTANT, r.val)
                         s3 == RecordWeatherTime(s2, x.dt)
                     IN  Result(s3, None, cs)

\* the except clause of process_weather_query
ProcessWeatherExcept(r) ==
    Result([r.state EXCEPT
               !.error_message = Some(<<"Error in weather node: ">> \o r.exc[1])],
           None, r.calls)

process_weather_query(s, x) ==
    LET r == ProcessWeatherTry(s, x)
    IN  IF r.exc # None THEN ProcessWeatherExcept(r) ELSE r

(***************************************************************************)
(* app/graph/tools/retriever.py                                            *)
(***************************************************************************)
\* the limit and score threshold retrieve_relevant_documents and
\* search_similar default to
DefaultLimit == 5

DefaultScoreThreshold == 70

\* the limit (max_chunks) and score threshold (0.6, as 60/100) of
\* get_rag_context
ContextLimit == 3

ContextScoreThreshold == 60

\* search_similar: found is the outcome of the store's search, its value the
\* matching documents in rank order; the store returns at most limit of them
search_similar(found, limit) ==
    IF ~found.ok THEN found
    ELSE Ok(SubSeq(found.val, 1,
                   IF Len(found.val) < limit THEN Len(found.val) ELSE limit))

\* retrieve_relevant_documents: one embedding call, then one search; any
\* failure is re-raised with a prefix
retrieve_relevant_documents(query, limit, score_threshold, x) ==
    LET c1 == <<CallOn("embeddings", query, x.embed)>>
    IN  IF ~x.embed.ok
        THEN [docs  |-> Fail(<<"Error retrieving documents: ">> \o x.embed.val),
              calls |-> c1]
        ELSE LET results == search_similar(x.search, limit)
                 c2 == c1 \o <<[call |-> "qdrant.search", ok |-> results.ok,
                                val |-> results.val, limit |-> limit,
                                score_threshold |-> score_threshold]>>
             IN  IF ~results.ok
                 THEN [docs  |-> Fail(<<"Error retrieving documents: ">>
                                      \o results.val),
                       calls |-> c2]
                 ELSE [docs |-> results, calls |-> c2]

\* the distinct source values of the documents
SourceSet(docs) == {docs[i].source : i \in 1..Len(docs)}

\* the sources listed once per document
SourceLists_NoDedup(docs) == {[i \in 1..Len(docs) |-> docs[i].source]}

\* list(set(...)): the distinct sources in any order
SourceLists(docs) ==
    {l \in [1..Cardinality(SourceSet(docs)) -> SourceSet(docs)] :
        \A src \in SourceSet(docs) : \E i \in DOMAIN l : l[i] = src}

\* the chunks listed from the last document to the first
RelevantChunks_Reversed(documents) ==
    [i \in 1..Len(documents) |-> documents[Len(documents) + 1 - i].content]

\* get_rag_context, line 75: the content of each document, in order
RelevantChunks(documents) ==
    [i \in 1..Len(documents) |-> documents[i].content]

\* get_rag_context with max_chunks = 3 and score threshold 0.6 (as 60/100);
\* x.sources is the order list(set(...)) produced
get_rag_context(query, x) ==
    LET r == retrieve_relevant_documents(query, ContextLimit,
                                         ContextScoreThreshold, x)
    IN  IF ~r.docs.ok
        THEN [ctx   |-> Fail(<<"Error getting RAG context: ">> \o r.docs.val),
              calls |-> r.calls]
        ELSE LET documents == r.docs.val
             IN  IF documents = <<>>
                 THEN [ctx   |-> Ok([relevant_chunks |-> <<>>,
                                     sources         |-> <<>>,
                                     total_results   |-> 0]),
                       calls |-> r.calls]
                 ELSE [ctx   |-> Ok([relevant_chunks |->
                                        RelevantChunks(documents),
                                     sources         |-> x.sources,
                                     total_results   |-> Len(documents)]),
                       calls |-> r.calls]

(***************************************************************************)
(* app/graph/nodes/rag.py                                                  *)
(***************************************************************************)
RAGResult(query, relevant_chunks, summary, sources) ==
    [query           |-> query,
     relevant_chunks |-> relevant_chunks,
     summary         |-> summary,
     sources         |-> sources]

\* the test taken as `is None`, which a list never passes
NoRelevantChunks_IsNone(rag_context) == FALSE

\* process_rag_query, line 28: `if not rag_context["relevant_chunks"]`
NoRelevantChunks(rag_context) == rag_context.relevant_chunks = <<>>

\* the try block of process_rag_query
ProcessRagTry(s, x) ==
    LET query == ResolveQuery(s)
    IN  IF ~Truthy(query)
        THEN Result([s EXCEPT !.error_message =
                        Some(<<"No query provided for RAG processing">>)],
                    None, <<>>)
        ELSE
        LET t == get_rag_context(query[1], x)
        IN  IF ~t.ctx.ok THEN Result(s, Some(t.ctx.val), t.calls)
            ELSE IF NoRelevantChunks(t.ctx.val)
            THEN Result([s EXCEPT !.error_message =
                          Some(<<"No relevant documents found for your query">>)],
                        None, t.calls)
            ELSE
            LET rag_context == t.ctx.val
                s1 == [s EXCEPT !.rag_result =
                          Some(RAGResult(query[1], rag_context.relevant_chunks,
                                         EmptyStr, rag_context.sources))]
                r  == summarize_rag_results(x.summary)
                cs == t.calls \o <<Call("llm.summarize_rag_results", r)>>
            IN  IF ~r.ok THEN Result(s1, Some(r.val), cs)
                ELSE LET s2 == [s1 EXCEPT !.rag_result[1].summary = r.val]
                         s3 == add_message(s2, MessageRole.ASSISTANT, r.val)
                         s4 == [s3 EXCEPT !.processing_time = Some(x.dt)]
                     IN  Result(s4, None, cs)

\* the except clause of process_rag_query
ProcessRagExcept(r) ==
    Result([r.state EXCEPT
               !.error_message = Some(<<"Error in RAG node: ">> \o r.exc[1])],
           None, r.calls)

process_rag_query(s, x) ==
    LET r == ProcessRagTry(s, x)
    IN  IF r.exc # None THEN ProcessRagExcept(r) ELSE r

(***************************************************************************)
(* app/graph/__init__.py: Response Synthesis and process_query             *)
(***************************************************************************)
GenericResponse ==
    <<"I'm sorry, I couldn't process your request. Please try asking about weather or upload a document to ask questions about it.">>

\* the prefix of an error banner; "(x)" stands for the cross-mark sign
ErrorBanner == <<"(x) Error: ">>

\* Response Synthesis that leaves a state with an error as it is
generate_final_response_NoBanner(s) ==
    IF Truthy(s.error_message)
    THEN Result(s, None, <<>>)
    ELSE LET last_assistant_message ==
                 LastWithRole(s.messages, MessageRole.ASSISTANT)
         IN  IF Truthy(last_assistant_message)
             THEN Result(s, None, <<>>)
             ELSE Result(add_message(s, MessageRole.ASSISTANT, GenericResponse),
                         None, <<>>)

\* _generate_final_response; nothing in its try block raises
generate_final_response(s) ==
    IF Truthy(s.error_message)
    THEN Result(add_message(s, MessageRole.ASSISTANT,
                            ErrorBanner \o s.error_message[1]),
                None, <<>>)
    ELSE LET last_assistant_message ==
                 LastWithRole(s.messages, MessageRole.ASSISTANT)
         IN  IF Truthy(last_assistant_message)
             THEN Result(s, None, <<>>)
             ELSE Result(add_message(s, MessageRole.ASSISTANT, GenericResponse),
                         None, <<>>)

\* the initial state built without the identifiers
InitialState_NoIds(query, session_id, user_id) ==
    add_message(AssistantState(query, None, None, None),
                MessageRole.USER, query)

\* process_query, lines 89-93: the initial state of a turn
InitialState(query, session_id, user_id) ==
    add_message(AssistantState(query, session_id, user_id, None),
                MessageRole.USER, query)

\* the error state built on the state the failed run had reached
ErrorState_KeepPartial(query, session_id, user_id, graph_error) ==
    add_message(
        [state EXCEPT !.error_message =
                          Some(<<"Graph execution error: ">> \o graph_error)],
        MessageRole.ASSISTANT, ErrorBanner \o graph_error)

\* process_query, lines 104-115: the state returned when graph.ainvoke
\* raises graph_error
ErrorState(query, session_id, user_id, graph_error) ==
    add_message(
        add_message(
            AssistantState(query, session_id, user_id,
                           Some(<<"Graph execution error: ">> \o graph_error)),
            MessageRole.USER, query),
        MessageRole.ASSISTANT, ErrorBanner \o graph_error)

(***************************************************************************)
(* Inputs: queries, identifiers and the outcomes of the external calls     *)
(***************************************************************************)
Queries == {EmptyStr, WeatherQuery, DocumentQuery, BareWeatherQuery}

SessionIds == {None, Some("session-1")}

UserIds == {None, Some("user-1")}

Causes == {<<"connection timed out">>}

Elapsed == 0..MaxElapsed

\* answers of the classification prompt
ClassifyAnswers ==
    {s_weather, s_rag, s_unknown, EmptyStr,
     <<"x", "y", "z", "1", "2", "3">>,
     <<"w", "e", "a", "t", "h", "e", "r", " ", "o", "r", " ", "r", "a", "g">>,
     <<"r", "a", "g", " ", "w", "e", "a", "t", "h", "e", "r">>,
     <<" ", "W", "e", "a", "t", "h", "e", "r", "\n">>,
     <<"R", "A", "G">>,
     <<"w", "e", "a", "t", "h", "e">>}

LlmOutcomes(answers) == {Ok(a) : a \in answers} \cup {Fail(c) : c \in Causes}

\* answers of the location-extraction prompt
LocationAnswers ==
    {<<"L", "o", "n", "d", "o", "n">>, <<" ", "P", "a", "r", "i", "s", "\n">>,
     <<"A", "t", "l", "a", "n", "t", "i", "s">>,
     s_none, <<" ", "N", "O", "N", "E">>, EmptyStr}

\* answers of the geocoding service: lists of <<longitude, latitude>>, the
\* last one malformed
GeoOutcomes ==
    {Ok(<<>>), Ok(<< <<-1278, 515074>> >>), Ok(<< <<-1278>> >>)}
    \cup {Fail(c) : c \in Causes}

ProviderOk ==
    [cod |-> 200, message |-> EmptyStr, temp |-> 155, feels_like |-> 142,
     humidity |-> 65, pressure |-> 1013, description |-> <<"partly cloudy">>,
     wind_speed |-> 123]

ProviderError ==
    [cod |-> 404, message |-> <<"city not found">>, temp |-> 0,
     feels_like |-> 0, humidity |-> 0, pressure |-> 0,
     description |-> EmptyStr, wind_speed |-> 0]

HttpOutcomes ==
    {[ok |-> TRUE, val |-> ProviderOk, kind |-> "response"],
     [ok |-> TRUE, val |-> ProviderError, kind |-> "response"]}
    \cup {[ok |-> FALSE, val |-> c, kind |-> k] :
              c \in Causes, k \in {"request", "other"}}

Summaries == {EmptyStr, <<"Here is what I found.">>}

WeatherInputs ==
    [extract : LlmOutcomes(LocationAnswers),
     has_key : BOOLEAN, geo : GeoOutcomes, http : HttpOutcomes,
     summary : LlmOutcomes(Summaries), dt : Elapsed]

Doc(content, source, score) ==
    [content |-> content, source |-> source, score |-> score]

DocA == Doc(<<"Revenue grew by ten percent.">>, <<"report.pdf">>, 90)

DocB == Doc(<<"Costs were flat.">>, <<"report.pdf">>, 80)

DocC == Doc(<<"The guide covers setup.">>, <<"guide.pdf">>, 70)

\* the documents that match in the store, in rank order
DocLists ==
    {<<>>, <<DocA>>, <<DocA, DocB>>, <<DocC, DocA>>, <<DocA, DocA, DocC>>,
     <<DocA, DocB, DocC, DocA>>}

SearchOutcomes == {Ok(d) : d \in DocLists} \cup {Fail(c) : c \in Causes}

EmbedOutcomes == {Ok(<<1, 2, 3>>)} \cup {Fail(c) : c \in Causes}

\* the outcomes of the external calls of one Retrieval Resolution run
RagInputs ==
    {x \in [embed : EmbedOutcomes, search : SearchOutcomes,
            sources : UNION {SourceLists(d) : d \in DocLists},
            summary : LlmOutcomes(Summaries), dt : Elapsed] :
        x.sources \in (IF x.search.ok
                       THEN SourceLists(search_similar(x.search,
                                                       ContextLimit).val)
                       ELSE {<<>>})}

(***************************************************************************)
(* One turn of process_query                                               *)
(***************************************************************************)
GraphPcs == {"router", "weather_node", "rag_node", "final_response", "end",
             "aborted"}

\* a stage has run with result r; the graph goes on to next unless the
\* stage raised
StageDone(name, r, next) ==
    /\ entry' = state
    /\ state' = r.state
    /\ calls' = calls \o r.calls
    /\ raised' = r.exc
    /\ stages' = Append(stages, name)
    /\ pc' = IF r.exc = None THEN next ELSE "aborted"

\* time.time() - start_time as the stage would measure it
Measured(name, dt) == [stage |-> name, dt |-> dt]

\* process_query, lines 88-93
ProcessQuery ==
    /\ pc = "idle"
    /\ \E query \in Queries, session_id \in SessionIds, user_id \in UserIds :
          /\ args' = [query |-> query, session_id |-> session_id,
                      user_id |-> user_id]
          /\ state' = InitialState(query, session_id, user_id)
          /\ entry' = state'
    /\ pc' = "router"
    /\ UNCHANGED <<calls, raised, stages, decision, ret, clock>>

\* the router node, then the conditional edge
Router ==
    /\ pc = "router"
    /\ \E llm \in LlmOutcomes(ClassifyAnswers), dt \in Elapsed :
          LET r == route_query(state, llm, dt)
          IN  /\ StageDone("router", r, RouteToNextNode(r.state))
              /\ decision' = IF r.exc = None
                             THEN Append(decision, RouteToNextNode(r.state))
                             ELSE decision
              /\ clock' = Append(clock, Measured("router", dt))
    /\ UNCHANGED <<args, ret>>

WeatherNode ==
    /\ pc = "weather_node"
    /\ \E x \in WeatherInputs :
          /\ StageDone("weather_node", process_weather_query(state, x),
                       "final_response")
          /\ clock' = Append(clock, Measured("weather_node", x.dt))
    /\ UNCHANGED <<args, decision, ret>>

RagNode ==
    /\ pc = "rag_node"
    /\ \E x \in RagInputs :
          /\ StageDone("rag_node", process_rag_query(state, x),
                       "final_response")
          /\ clock' = Append(clock, Measured("rag_node", x.dt))
    /\ UNCHANGED <<args, decision, ret>>

FinalResponse ==
    /\ pc = "final_response"
    /\ StageDone("final_response", generate_final_response(state), "end")
    /\ UNCHANGED <<args, decision, ret, clock>>

\* process_query, lines 96-103: graph.ainvoke returned
GraphReturns ==
    /\ pc = "end"
    /\ pc' = "returned"
    /\ UNCHANGED <<state, entry, args, calls, raised, stages, decision, ret, clock>>

\* process_query, lines 104-115: graph.ainvoke raised, because a stage
\* raised or because graph execution itself failed
GraphRaises ==
    /\ pc \in GraphPcs
    /\ \E graph_error \in (IF raised # None THEN {raised[1]} ELSE Causes) :
          /\ state' = ErrorState(args.query, args.session_id, args.user_id,
                                 graph_error)
          /\ calls' = Append(calls, Call("graph.ainvoke", Fail(graph_error)))
    /\ pc' = "returned"
    /\ UNCHANGED <<entry, args, raised, stages, decision, ret, clock>>

Init ==
    /\ pc = "idle"
    /\ state = AssistantState(EmptyStr, None, None, None)
    /\ entry = state
    /\ args = [query |-> EmptyStr, session_id |-> None, user_id |-> None]
    /\ calls = <<>>
    /\ raised = None
    /\ stages = <<>>
    /\ decision = <<>>
    /\ ret = None
    /\ clock = <<>>

Next ==
    \/ ProcessQuery
    \/ Router
    \/ WeatherNode
    \/ RagNode
    \/ FinalResponse
    \/ GraphReturns
    \/ GraphRaises

Spec == Init /\ [][Next]_vars

(***************************************************************************)
(* route_query and the next-node functions called on any state             *)
(***************************************************************************)
HistoryMessages ==
    {Message(MessageRole.USER, DocumentQuery),
     Message(MessageRole.USER, EmptyStr),
     Message(MessageRole.ASSISTANT, <<"Let me check that for you.">>)}

Histories == UNION {[1..n -> HistoryMessages] : n \in 0..MaxHistory}

SampleWeatherData ==
    WeatherData(get_weather_data(s_london, DefaultCoordinates,
                                 [ok |-> TRUE, val |-> ProviderOk,
                                  kind |-> "response"]).data)

SampleRagResult ==
    RAGResult(DocumentQuery, <<DocA.content>>, <<"An earlier summary.">>,
              <<DocA.source>>)

\* the states a stage can be handed when it is called on its own
StageInputs ==
    [messages        : Histories,
     current_query   : {EmptyStr, WeatherQuery},
     query_type      : {QueryType.WEATHER, QueryType.RAG, QueryType.UNKNOWN},
     weather_data    : {None, Some(SampleWeatherData)},
     rag_result      : {None, Some(SampleRagResult)},
     error_message   : {None, Some(<<"An earlier error">>)},
     processing_time : {None, Some(MaxElapsed + 1)},
     session_id      : SessionIds,
     user_id         : {Some("user-1")}]

InitRouter ==
    /\ pc = "start"
    /\ state \in StageInputs
    /\ entry = state
    /\ args = [query |-> state.current_query, session_id |-> state.session_id,
               user_id |-> state.user_id]
    /\ calls = <<>>
    /\ raised = None
    /\ stages = <<>>
    /\ decision = <<>>
    /\ ret = None
    /\ clock = <<>>

\* RouterNode.route_query called on the state
CallRouteQuery ==
    /\ pc = "start"
    /\ \E llm \in LlmOutcomes(ClassifyAnswers), dt \in Elapsed :
          StageDone("router", route_query(state, llm, dt), "routed")
    /\ UNCHANGED <<args, decision, ret, clock>>

\* AssistantGraph._route_to_next_node called on the state
CallRouteToNextNode ==
    /\ pc \in {"start", "routed"}
    /\ decision' = <<RouteToNextNode(state)>>
    /\ pc' = "decided"
    /\ UNCHANGED <<state, entry, args, calls, raised, stages, ret, clock>>

\* utils.get_next_node called on the same state
CallGetNextNode ==
    /\ pc = "decided"
    /\ decision' = Append(decision, get_next_node(state))
    /\ pc' = "compared"
    /\ UNCHANGED <<state, entry, args, calls, raised, stages, ret, clock>>

NextRouter == CallRouteQuery \/ CallRouteToNextNode \/ CallGetNextNode

SpecRouter == InitRouter /\ [][NextRouter]_vars

(***************************************************************************)
(* Properties                                                              *)
(***************************************************************************)
StateFields ==
    {"messages", "current_query", "query_type", "weather_data", "rag_result",
     "error_message", "processing_time", "session_id", "user_id"}

Returned == pc = "returned"

AssistantCount(messages) ==
    Cardinality({i \in DOMAIN messages :
                    messages[i].role = MessageRole.ASSISTANT})

HasUserMessage(messages) ==
    \E i \in DOMAIN messages : messages[i].role = MessageRole.USER

\* the other state is s with only its messages, query_type, error_message
\* and processing_time possibly changed
SameOtherFields(s, t) ==
    /\ t.current_query = s.current_query
    /\ t.weather_data = s.weather_data
    /\ t.rag_result = s.rag_result
    /\ t.session_id = s.session_id
    /\ t.user_id = s.user_id

\* route_query has returned from a call made on the entry state
Routed == pc = "routed"

ClassifyCalled == Routed /\ calls # <<>>

ClassifyOk == ClassifyCalled /\ calls[1].ok

ClassifyFailed == ClassifyCalled /\ ~calls[1].ok

\* what route_query received from classify_query: the classification text,
\* or the cause of the failure
Classification == calls[1].val

MentionsWeather(text) ==
    \E i \in 1..Len(text) :
        /\ i + 6 <= Len(text)
        /\ \A k \in 1..7 : text[i + k - 1] = s_weather[k]

\* C1: whatever the external calls and graph execution do, no exception
\* leaves a stage, and a turn that has started always goes on until
\* process_query returns an AssistantState
C1_NeverRaises ==
    /\ raised = None
    /\ (pc \notin {"idle", "returned"} => ENABLED Next)
    /\ (Returned => DOMAIN state = StateFields)

C1_Witness ==
    /\ Returned
    /\ \E i \in DOMAIN calls : ~calls[i].ok
    /\ state.error_message # None

\* C2 (as claimed): every state returned by process_query holds exactly one
\* ASSISTANT message
C2_ExactlyOneAssistant == Returned => AssistantCount(state.messages) = 1

\* C3 (as claimed): in every returned state with errorMessage set,
\* weatherData and ragResult are null
C3_ErrorMeansNoData ==
    (Returned /\ state.error_message # None)
        => (state.weather_data = None /\ state.rag_result = None)

\* C4: in every returned state with errorMessage null, exactly one of
\* weatherData and ragResult is set, the one matching queryType
C4_ExactlyOneResult ==
    (Returned /\ state.error_message = None)
        => \/ /\ state.query_type = QueryType.WEATHER
              /\ state.weather_data # None
              /\ state.rag_result = None
           \/ /\ state.query_type = QueryType.RAG
              /\ state.rag_result # None
              /\ state.weather_data = None

C4_Witness ==
    /\ Returned
    /\ state.error_message = None
    /\ state.query_type = QueryType.RAG
    /\ state.rag_result # None
    /\ Len(state.rag_result[1].relevant_chunks) = 2

\* C5: once a classification text is obtained, queryType is WEATHER when
\* the text contains "weather" and RAG otherwise, never UNKNOWN
C5_DecisionRule ==
    ClassifyOk =>
        /\ state.query_type = IF MentionsWeather(Classification)
                              THEN QueryType.WEATHER ELSE QueryType.RAG
        /\ state.query_type # QueryType.UNKNOWN

C5_Witness ==
    /\ ClassifyOk
    /\ MentionsWeather(Classification)
    /\ Contains(Classification, s_rag)
    /\ entry.query_type = QueryType.RAG
    /\ state.query_type = QueryType.WEATHER

\* C6 (as claimed): called with an empty currentQuery and no USER message,
\* route_query sets the error "No query provided" and queryType UNKNOWN,
\* calls no LLM, appends nothing and changes no other field
C6_NoQuery ==
    (Routed /\ entry.current_query = EmptyStr
            /\ ~HasUserMessage(entry.messages))
        => /\ state.error_message = Some(<<"No query provided">>)
           /\ state.query_type = QueryType.UNKNOWN
           /\ calls = <<>>
           /\ state.messages = entry.messages
           /\ state.processing_time = entry.processing_time
           /\ SameOtherFields(entry, state)

\* C7: when the classification call fails with cause c, the error is
\* "Error in router node: " + c, queryType is UNKNOWN and no message is
\* appended
C7_LlmFailure ==
    ClassifyFailed =>
        /\ state.error_message =
              Some(<<"Error in router node: ">> \o Classification)
        /\ state.query_type = QueryType.UNKNOWN
        /\ state.messages = entry.messages

C7_Witness ==
    /\ ClassifyFailed
    /\ entry.query_type = QueryType.WEATHER
    /\ state.query_type = QueryType.UNKNOWN

\* C8: a successful classification appends exactly one message, last, of
\* role SYSTEM and content "Query classified as: " + the queryType value;
\* the no-query and LLM-failure paths append none
C8_SystemMessage ==
    /\ ClassifyOk =>
          /\ Len(state.messages) = Len(entry.messages) + 1
          /\ SubSeq(state.messages, 1, Len(entry.messages)) = entry.messages
          /\ state.messages[Len(state.messages)] =
                [role    |-> "system",
                 content |-> <<"Query classified as: ">>
                             \o <<state.query_type>>]
    /\ (Routed /\ ~ClassifyOk) => state.messages = entry.messages

C8_Witness ==
    /\ ClassifyOk
    /\ Len(entry.messages) = 2
    /\ state.messages[3].content = <<"Query classified as: ", "rag">>

\* C9 (as claimed): whenever route_query gets past the missing-query check
\* it records processingTime, on success and on LLM failure alike
C9_AlwaysRecordsTime ==
    ClassifyCalled =>
        \E dt \in Elapsed : state.processing_time = Some(dt)

\* C9 (amended): processingTime is recorded when the classification
\* succeeds and left as it was on entry when the classification call fails
C9_RecordsTimeOnSuccess ==
    /\ ClassifyOk => \E dt \in Elapsed : state.processing_time = Some(dt)
    /\ ClassifyFailed => state.processing_time = entry.processing_time

C9_Witness ==
    /\ ClassifyOk
    /\ entry.processing_time = None
    /\ state.processing_time = Some(MaxElapsed)

\* C10: the decision after Router is the three-way rule, error first, and
\* get_next_node gives the same target as _route_to_next_node
C10_NextNode ==
    pc = "compared" =>
        /\ decision[1] = decision[2]
        /\ state.error_message # None => decision[1] = "final_response"
        /\ state.error_message = None =>
              decision[1] =
                 CASE state.query_type = "weather" -> "weather_node"
                   [] state.query_type = "rag" -> "rag_node"
                   [] OTHER -> "final_response"

C10_Witness ==
    /\ pc = "compared"
    /\ state.error_message # None
    /\ state.query_type = QueryType.WEATHER
    /\ decision = <<"final_response", "final_response">>

(***************************************************************************)
(* _generate_final_response called on any state, once and once more        *)
(***************************************************************************)
SynthesisMessages ==
    HistoryMessages \cup {Message(MessageRole.ASSISTANT, EmptyStr)}

SynthesisHistories ==
    UNION {[1..n -> SynthesisMessages] : n \in 0..MaxHistory}

\* the states Response Synthesis can be handed when it is called on its own
SynthesisInputs ==
    [messages        : SynthesisHistories,
     current_query   : {WeatherQuery},
     query_type      : {QueryType.WEATHER, QueryType.UNKNOWN},
     weather_data    : {None, Some(SampleWeatherData)},
     rag_result      : {None},
     error_message   : {None, Some(<<"An earlier error">>)},
     processing_time : {None},
     session_id      : {None},
     user_id         : {Some("user-1")}]

InitSynthesis ==
    /\ pc = "start"
    /\ state \in SynthesisInputs
    /\ entry = state
    /\ args = [query |-> state.current_query, session_id |-> state.session_id,
               user_id |-> state.user_id]
    /\ calls = <<>>
    /\ raised = None
    /\ stages = <<>>
    /\ decision = <<>>
    /\ ret = None
    /\ clock = <<>>

\* AssistantGraph._generate_final_response called on the state
CallFinalResponse ==
    /\ pc = "start"
    /\ StageDone("final_response", generate_final_response(state),
                 "synthesized")
    /\ UNCHANGED <<args, decision, ret, clock>>

\* and called once more on the state it returned
CallFinalResponseAgain ==
    /\ pc = "synthesized"
    /\ StageDone("final_response", generate_final_response(state),
                 "synthesized_again")
    /\ UNCHANGED <<args, decision, ret, clock>>

NextSynthesis == CallFinalResponse \/ CallFinalResponseAgain

SpecSynthesis == InitSynthesis /\ [][NextSynthesis]_vars

\* Response Synthesis has returned from a call made on the entry state
Synthesized == pc \in {"synthesized", "synthesized_again"}

LastIsAssistant(messages) ==
    /\ messages # <<>>
    /\ messages[Len(messages)].role = MessageRole.ASSISTANT

\* C11 (as claimed): Response Synthesis called on a state with errorMessage
\* set whose last message is an ASSISTANT message appends nothing, so a
\* second application leaves the messages of the first
C11_IdempotentOnError ==
    (/\ Synthesized
     /\ entry.error_message # None
     /\ LastIsAssistant(entry.messages))
        => state.messages = entry.messages

\* C12 (as claimed): with errorMessage null, Response Synthesis appends the
\* generic fallback when the state holds no ASSISTANT message and leaves the
\* state unchanged when it holds one, whatever that message's content
C12_FallbackIffNoAssistant ==
    (pc = "synthesized" /\ entry.error_message = None)
        => IF AssistantCount(entry.messages) = 0
           THEN state = add_message(entry, MessageRole.ASSISTANT,
                                    GenericResponse)
           ELSE state = entry

\* the last message is the error banner of the message text
EndsWithBanner(messages, text) ==
    /\ LastIsAssistant(messages)
    /\ messages[Len(messages)].content = ErrorBanner \o text

\* C13 (as claimed): every returned state with errorMessage m ends with an
\* ASSISTANT message whose content is the banner prefix followed by m, on
\* the stage-error paths and the graph-exception path alike
C13_BannerIsErrorMessage ==
    (Returned /\ state.error_message # None)
        => EndsWithBanner(state.messages, state.error_message[1])

\* C13 (amended): every returned state with errorMessage m ends with an
\* ASSISTANT message; its content is the banner prefix followed by m when a
\* stage set m, and the banner prefix followed by the exception text e when
\* graph execution raised e and m is "Graph execution error: " followed by e
C13_BannerPerPath ==
    (Returned /\ state.error_message # None)
        => LET m == state.error_message[1]
           IN  IF Head(m) = "Graph execution error: "
               THEN EndsWithBanner(state.messages, Tail(m))
               ELSE EndsWithBanner(state.messages, m)

C13_Witness ==
    /\ Returned
    /\ state.error_message =
           Some(<<"Graph execution error: ", "connection timed out">>)
    /\ EndsWithBanner(state.messages, <<"connection timed out">>)

\* the entries of the call log with the name
CallsNamed(name) == SelectSeq(calls, LAMBDA c : c.call = name)

\* the stage has just run in the turn; entry is the state it was given
StageRan(name) ==
    /\ pc = "final_response"
    /\ stages # <<>>
    /\ stages[Len(stages)] = name

\* the city the extraction of the turn yielded: the LLM's answer, or the
\* regex fallback's when the LLM call failed
ExtractedCity ==
    LET e == CallsNamed("llm.extract_city")[1]
    IN  IF e.ok
        THEN LET answer == Lower(Strip(e.val))
             IN  IF answer \in {<<"n", "o", "n", "e">>, s_no_location,
                                <<"u", "n", "k", "n", "o", "w", "n">>}
                 THEN None
                 ELSE Some(answer)
        ELSE CallsNamed("regex_fallback")[1].val

NoCityFound ==
    /\ StageRan("weather_node")
    /\ CallsNamed("llm.extract_city") # <<>>
    /\ ExtractedCity \in {None, Some(EmptyStr)}

\* C14: when the extraction yields no city (LLM path or regex path), the
\* weather stage ends with errorMessage "Could not extract city name from
\* query", weatherData null and no message appended, and neither the
\* geocoding nor the weather service has been called in the turn
C14_NoCity ==
    NoCityFound
        => /\ state.error_message =
                  Some(<<"Could not extract city name from query">>)
           /\ state.weather_data = None
           /\ state.messages = entry.messages
           /\ CallsNamed("geocoding") = <<>>
           /\ CallsNamed("weather") = <<>>

C14_Witness ==
    /\ NoCityFound
    /\ ~CallsNamed("llm.extract_city")[1].ok
    /\ state.error_message # None

\* the weather service answered in the turn, with the payload
WeatherAnswered ==
    /\ StageRan("weather_node")
    /\ CallsNamed("weather") # <<>>
    /\ CallsNamed("weather")[1].ok

WeatherPayload == CallsNamed("weather")[1].val

\* C15 (as claimed): when the provider answers with a status other than 200
\* and message m, the weather stage ends with errorMessage exactly
\* "Weather API error: " followed by m, weatherData null and no ASSISTANT
\* message
C15_SinglePrefix ==
    (WeatherAnswered /\ WeatherPayload.cod # 200)
        => /\ state.error_message =
                  Some(<<"Weather API error: ">> \o WeatherPayload.message)
           /\ state.weather_data = None
           /\ AssistantCount(state.messages) = 0

\* the summarization of the stage that just ran returned a summary
Summarized(name) ==
    /\ CallsNamed(name) # <<>>
    /\ CallsNamed(name)[1].ok

\* C16 (as claimed): when the tool returns a result without an error (and
\* the summary is produced), weatherData holds city, temperature,
\* feels_like, description, humidity, wind_speed and pressure equal to the
\* tool's values, errorMessage is null, exactly one ASSISTANT message holds
\* the summary and processingTime is recorded
C16_WeatherSuccess ==
    (/\ WeatherAnswered
     /\ WeatherPayload.cod = 200
     /\ Summarized("llm.summarize_weather_data"))
        => /\ state.weather_data # None
           /\ LET wd == state.weather_data[1]
              IN  /\ wd.city = ExtractedCity[1]
                  /\ wd.temperature = WeatherPayload.temp
                  /\ wd.description = WeatherPayload.description
                  /\ wd.humidity = WeatherPayload.humidity
                  /\ wd.wind_speed = WeatherPayload.wind_speed
                  /\ wd.pressure = WeatherPayload.pressure
                  /\ "feels_like" \in DOMAIN wd
                  /\ wd.feels_like = WeatherPayload.feels_like
           /\ state.error_message = None
           /\ AssistantCount(state.messages) = 1
           /\ LastWithRole(state.messages, MessageRole.ASSISTANT) =
                  Some(CallsNamed("llm.summarize_weather_data")[1].val)
           /\ state.processing_time # None

\* process_query returned from its graph-exception path
GraphFailed ==
    /\ Returned
    /\ CallsNamed("graph.ainvoke") # <<>>

\* the turn of end-to-end scenario 1 has returned: the London query, the
\* classifier answering "weather", the extractor naming London and the
\* weather service answering successfully
LondonTurn ==
    /\ Returned
    /\ ~GraphFailed
    /\ args.query = WeatherQuery
    /\ CallsNamed("llm.classify_query")[1].ok
    /\ CallsNamed("llm.classify_query")[1].val = s_weather
    /\ CallsNamed("llm.extract_city") # <<>>
    /\ CallsNamed("llm.extract_city")[1].ok
    /\ CallsNamed("llm.extract_city")[1].val = <<"L", "o", "n", "d", "o", "n">>
    /\ CallsNamed("weather") # <<>>
    /\ CallsNamed("weather")[1].ok
    /\ CallsNamed("weather")[1].val.cod = 200

FirstWithRole(messages, role) ==
    LET of_role == SelectSeq(messages, LAMBDA msg : msg.role = role)
    IN  IF of_role = <<>> THEN None ELSE Some(of_role[1].content)

\* C17 (as claimed): the London turn returns weatherData.city "London",
\* capitalised as in the query, exactly one ASSISTANT message holding the
\* summary, and errorMessage null
C17_LondonCapitalised ==
    LondonTurn
        => /\ state.weather_data # None
           /\ state.weather_data[1].city = <<"L", "o", "n", "d", "o", "n">>
           /\ AssistantCount(state.messages) = 1
           /\ state.error_message = None

\* C17 (amended): the London turn in which the summarizer returns summary s
\* returns weatherData.city "london", lower-cased by the extractor,
\* errorMessage null and s as the content of the first ASSISTANT message,
\* which is the only ASSISTANT message when s is not empty
C17_LondonLowerCased ==
    (LondonTurn /\ Summarized("llm.summarize_weather_data"))
        => LET s == CallsNamed("llm.summarize_weather_data")[1].val
           IN  /\ state.weather_data # None
               /\ state.weather_data[1].city = <<"l", "o", "n", "d", "o", "n">>
               /\ state.error_message = None
               /\ FirstWithRole(state.messages, MessageRole.ASSISTANT) = Some(s)
               /\ (s # EmptyStr => AssistantCount(state.messages) = 1)

C17_Witness ==
    /\ LondonTurn
    /\ Summarized("llm.summarize_weather_data")
    /\ CallsNamed("llm.summarize_weather_data")[1].val # EmptyStr
    /\ AssistantCount(state.messages) = 1

\* the search of the turn answered with these documents
SearchAnswered ==
    /\ StageRan("rag_node")
    /\ CallsNamed("qdrant.search") # <<>>
    /\ CallsNamed("qdrant.search")[1].ok

FoundDocuments == CallsNamed("qdrant.search")[1].val

\* C19: when the search returns no document, the retrieval stage ends with
\* errorMessage "No relevant documents found for your query" and ragResult
\* null, makes no summarization call and appends no message
C19_NoDocuments ==
    (SearchAnswered /\ FoundDocuments = <<>>)
        => /\ state.error_message =
                  Some(<<"No relevant documents found for your query">>)
           /\ state.rag_result = None
           /\ CallsNamed("llm.summarize_rag_results") = <<>>
           /\ state.messages = entry.messages

C19_Witness ==
    /\ SearchAnswered
    /\ FoundDocuments = <<>>
    /\ state.error_message # None

\* C20: for every non-empty result list, the sources of the context hold
\* each distinct source of the documents exactly once and nothing else, and
\* there are at most as many sources as chunks
C20_SourcesDeduplicated ==
    (SearchAnswered /\ FoundDocuments # <<>>)
        => /\ state.rag_result # None
           /\ LET sources == state.rag_result[1].sources
                  chunks  == state.rag_result[1].relevant_chunks
              IN  /\ \A d \in DOMAIN FoundDocuments :
                        Cardinality({i \in DOMAIN sources :
                            sources[i] = FoundDocuments[d].source}) = 1
                  /\ \A i \in DOMAIN sources :
                        \E d \in DOMAIN FoundDocuments :
                            sources[i] = FoundDocuments[d].source
                  /\ Len(sources) <= Len(chunks)

C20_Witness ==
    /\ SearchAnswered
    /\ FoundDocuments = <<DocA, DocA, DocC>>
    /\ state.rag_result # None
    /\ Len(state.rag_result[1].sources) = 2
    /\ Len(state.rag_result[1].relevant_chunks) = 3

(***************************************************************************)
(* get_latitude_longitude called on any city name                          *)
(***************************************************************************)
CityNames ==
    {s_mumbai, s_delhi, s_bangalore, s_hyderabad, s_chennai, s_kolkata,
     s_pune, s_ahmedabad, s_jaipur, s_london, s_new_york, s_tokyo, s_paris,
     s_beijing, s_sydney,
     <<"T", "o", "k", "y", "o">>, <<" ", "T", "O", "K", "Y", "O", " ">>,
     <<"N", "e", "w", " ", "Y", "o", "r", "k", "\n">>,
     <<"n", "e", "w", "y", "o", "r", "k">>,
     <<"a", "t", "l", "a", "n", "t", "i", "s">>,
     <<"N", "o", "n", "e", "x", "i", "s", "t", "e", "n", "t", "C", "i", "t",
       "y">>}

InitGeo ==
    /\ pc = "start"
    /\ args \in [city : CityNames, has_key : BOOLEAN, geo : GeoOutcomes]
    /\ state = AssistantState(EmptyStr, None, None, None)
    /\ entry = state
    /\ calls = <<>>
    /\ raised = None
    /\ stages = <<>>
    /\ decision = <<>>
    /\ ret = None
    /\ clock = <<>>

\* WeatherTool.get_latitude_longitude called on the city
CallGetLatitudeLongitude ==
    /\ pc = "start"
    /\ LET r == get_latitude_longitude(args.city, args.has_key, args.geo)
       IN  /\ ret' = Some(r.coords)
           /\ calls' = r.calls
    /\ pc' = "located"
    /\ UNCHANGED <<state, entry, args, raised, stages, decision, clock>>

NextGeo == CallGetLatitudeLongitude

SpecGeo == InitGeo /\ [][NextGeo]_vars

\* the geocoding service gave no coordinates: no key is configured, the
\* call failed, or its answer holds no feature or a malformed one
NoGeocodedCoordinates ==
    \/ ~args.has_key
    \/ ~args.geo.ok
    \/ args.geo.val = <<>>
    \/ Len(args.geo.val[1]) < 2

TrimmedLowerCity == Lower(Strip(args.city))

\* C18: get_latitude_longitude returns a (latitude, longitude) pair for
\* every city and raises nothing; when geocoding gives no coordinates it is
\* the table entry of the lower-cased, trimmed city name ("tokyo" has
\* (35.6812, 139.7671)) and the default (19.0760, 72.8777) for every name
\* outside the table
C18_FallbackCoordinates ==
    pc = "located"
        => /\ raised = None
           /\ ret # None
           /\ Len(ret[1]) = 2
           /\ ret[1][1] \in Int /\ ret[1][2] \in Int
           /\ NoGeocodedCoordinates
                 => /\ ret[1] = fallback_coordinates(TrimmedLowerCity)
                    /\ (TrimmedLowerCity = <<"t", "o", "k", "y", "o">>
                           => ret[1] = <<356812, 1397671>>)
                    /\ (TrimmedLowerCity \notin
                            {s_mumbai, s_delhi, s_bangalore, s_hyderabad,
                             s_chennai, s_kolkata, s_pune, s_ahmedabad,
                             s_jaipur, s_london, s_new_york, s_tokyo,
                             s_paris, s_beijing, s_sydney}
                           => ret[1] = <<190760, 728777>>)

C18_Witness ==
    /\ pc = "located"
    /\ args.city = <<" ", "T", "O", "K", "Y", "O", " ">>
    /\ args.has_key
    /\ ~args.geo.ok
    /\ ret = Some(<<356812, 1397671>>)

\* C21: for every non-empty list of search results, relevantChunks has the
\* length of the list and its i-th element is the content of the i-th
\* result, in rank order and with duplicate contents kept
C21_ChunksInRankOrder ==
    (SearchAnswered /\ FoundDocuments # <<>>)
        => /\ state.rag_result # None
           /\ LET chunks == state.rag_result[1].relevant_chunks
              IN  /\ Len(chunks) = Len(FoundDocuments)
                  /\ \A i \in DOMAIN FoundDocuments :
                        chunks[i] = FoundDocuments[i].content

C21_Witness ==
    /\ SearchAnswered
    /\ FoundDocuments = <<DocA, DocA, DocC>>
    /\ state.rag_result # None
    /\ state.rag_result[1].relevant_chunks =
           <<DocA.content, DocA.content, DocC.content>>

\* the text ends with the suffix
EndsWith(text, suffix) ==
    /\ Len(text) >= Len(suffix)
    /\ SubSeq(text, Len(text) - Len(suffix) + 1, Len(text)) = suffix

\* a call of the retrieval stage that just ran failed
RagCallFailed ==
    /\ StageRan("rag_node")
    /\ \E name \in {"embeddings", "qdrant.search", "llm.summarize_rag_results"} :
          CallsNamed(name) # <<>> /\ ~CallsNamed(name)[1].ok

SummarizationFailed ==
    /\ StageRan("rag_node")
    /\ CallsNamed("llm.summarize_rag_results") # <<>>
    /\ ~CallsNamed("llm.summarize_rag_results")[1].ok

\* C22 (as claimed): when embedding, search or summarization fails with
\* cause c, Retrieval Resolution ends with errorMessage "Error in RAG node: "
\* followed by the text of the exception, which ends with c; when it is
\* summarization that fails, ragResult is null in the state the stage
\* returns and the stage appended no ASSISTANT message
C22_AllOrNothing ==
    /\ RagCallFailed
          => /\ state.error_message # None
             /\ Head(state.error_message[1]) = "Error in RAG node: "
             /\ \E c \in Causes : EndsWith(state.error_message[1], c)
    /\ SummarizationFailed
          => /\ state.rag_result = None
             /\ state.messages = entry.messages

(***************************************************************************)
(* The three stages with a query, each called on any state                 *)
(***************************************************************************)
\* the states a stage is handed when it is called on its own
ResolverStates ==
    [messages        : Histories,
     current_query   : {EmptyStr, WeatherQuery},
     query_type      : {QueryType.UNKNOWN},
     weather_data    : {None, Some(SampleWeatherData)},
     rag_result      : {None, Some(SampleRagResult)},
     error_message   : {None},
     processing_time : {None},
     session_id      : {None},
     user_id         : {Some("user-1")}]

\* the outcomes of the external calls of Weather Resolution
ResolverWeatherInputs ==
    {x \in WeatherInputs :
        /\ x.extract \in {Ok(<<"L", "o", "n", "d", "o", "n">>), Ok(s_none)}
                             \cup {Fail(c) : c \in Causes}
        /\ x.has_key
        /\ x.geo = Ok(<<>>)}

InitStages ==
    /\ pc = "start"
    /\ state \in ResolverStates
    /\ entry = state
    /\ args = [query |-> state.current_query, session_id |-> state.session_id,
               user_id |-> state.user_id]
    /\ calls = <<>>
    /\ raised = None
    /\ stages = <<>>
    /\ decision = <<>>
    /\ ret = None
    /\ clock = <<>>

\* WeatherNode.process_weather_query called on the state
CallProcessWeatherQuery ==
    /\ pc = "start"
    /\ \E x \in ResolverWeatherInputs :
          StageDone("weather_node", process_weather_query(state, x),
                    "weather_done")
    /\ UNCHANGED <<args, decision, ret, clock>>

\* RAGNode.process_rag_query called on the state
CallProcessRagQuery ==
    /\ pc = "start"
    /\ \E x \in RagInputs :
          StageDone("rag_node", process_rag_query(state, x), "rag_done")
    /\ UNCHANGED <<args, decision, ret, clock>>

NextStages ==
    \/ CallRouteQuery
    \/ CallProcessWeatherQuery
    \/ CallProcessRagQuery

SpecStages == InitStages /\ [][NextStages]_vars

\* a stage has returned from a call made on the entry state
StageReturned == pc \in {"routed", "weather_done", "rag_done"}

\* the query of the state: currentQuery, else the content of the USER
\* message with the greatest index, else none
ExpectedQuery(s) ==
    LET users == {i \in DOMAIN s.messages :
                     s.messages[i].role = MessageRole.USER}
    IN  IF s.current_query # EmptyStr THEN s.current_query
        ELSE IF users = {} THEN EmptyStr
        ELSE s.messages[CHOOSE i \in users : \A j \in users : j <= i].content

NoQueryErrors ==
    {<<"No query provided">>,
     <<"No query provided for weather processing">>,
     <<"No query provided for RAG processing">>}

\* C23: Router, Weather Resolution and Retrieval Resolution process
\* currentQuery when it is non-empty and otherwise the content of the most
\* recent USER message: that query is what their first call is handed (and
\* what a new ragResult records), and without one they make no call
C23_QueryResolution ==
    StageReturned
        => IF ExpectedQuery(entry) # EmptyStr
           THEN /\ calls # <<>>
                /\ calls[1].query = ExpectedQuery(entry)
                /\ (pc = "rag_done" /\ state.rag_result # entry.rag_result)
                      => state.rag_result[1].query = ExpectedQuery(entry)
           ELSE /\ calls = <<>>
                /\ state.error_message # None
                /\ state.error_message[1] \in NoQueryErrors

C23_Witness ==
    /\ pc = "weather_done"
    /\ entry.current_query = EmptyStr
    /\ entry.messages =
           <<Message(MessageRole.USER, DocumentQuery),
             Message(MessageRole.ASSISTANT, <<"Let me check that for you.">>)>>
    /\ calls # <<>>
    /\ calls[1].query = DocumentQuery

\* C24: a resolver called on a state with empty currentQuery and no USER
\* message sets its own error, makes no external call, appends no message
\* and leaves every other field, weatherData and ragResult among them, as
\* it was
C24_ResolverWithoutQuery ==
    (/\ pc \in {"weather_done", "rag_done"}
     /\ entry.current_query = EmptyStr
     /\ ~HasUserMessage(entry.messages))
        => /\ calls = <<>>
           /\ state.messages = entry.messages
           /\ state.weather_data = entry.weather_data
           /\ state.rag_result = entry.rag_result
           /\ state =
                 [entry EXCEPT !.error_message =
                     IF pc = "weather_done"
                     THEN Some(<<"No query provided for weather processing">>)
                     ELSE Some(<<"No query provided for RAG processing">>)]

C24_Witness ==
    /\ pc = "rag_done"
    /\ entry.current_query = EmptyStr
    /\ entry.messages =
           <<Message(MessageRole.ASSISTANT, <<"Let me check that for you.">>)>>
    /\ entry.weather_data = None
    /\ entry.rag_result = None
    /\ state.rag_result = None
    /\ state.error_message = Some(<<"No query provided for RAG processing">>)

\* C25: when graph execution raises, process_query returns a fresh state:
\* currentQuery, sessionId and userId are the arguments, messages are
\* exactly the USER message of the query followed by an ASSISTANT error
\* banner, errorMessage is set, and weatherData, ragResult and every other
\* field of the failed run's state are back at their defaults
C25_FreshErrorState ==
    GraphFailed
        => /\ state.current_query = args.query
           /\ state.session_id = args.session_id
           /\ state.user_id = args.user_id
           /\ Len(state.messages) = 2
           /\ state.messages[1] = Message(MessageRole.USER, args.query)
           /\ state.messages[2].role = MessageRole.ASSISTANT
           /\ Head(state.messages[2].content) = "(x) Error: "
           /\ state.error_message # None
           /\ state.weather_data = None
           /\ state.rag_result = None
           /\ state.query_type = QueryType.UNKNOWN
           /\ state.processing_time = None

C25_Witness ==
    /\ GraphFailed
    /\ stages = <<"router", "weather_node", "final_response">>
    /\ entry.weather_data # None
    /\ Len(entry.messages) > 2
    /\ state.weather_data = None
    /\ Len(state.messages) = 2

SameIdentifiers(s, t) ==
    /\ t.session_id = s.session_id
    /\ t.user_id = s.user_id
    /\ t.current_query = s.current_query

\* C26: every stage of a turn, on its success and on its failure paths,
\* leaves sessionId, userId and currentQuery as it found them, and from its
\* initial state to the state process_query returns the turn carries the
\* sessionId, userId and query passed in
C26_IdentifiersPreserved ==
    pc # "idle"
        => /\ SameIdentifiers(entry, state)
           /\ state.session_id = args.session_id
           /\ state.user_id = args.user_id
           /\ state.current_query = args.query

C26_Witness ==
    /\ Returned
    /\ ~GraphFailed
    /\ stages = <<"router", "rag_node", "final_response">>
    /\ state.error_message # None
    /\ args.session_id = Some("session-1")
    /\ state.session_id = Some("session-1")
    /\ state.user_id = Some("user-1")
    /\ state.current_query = DocumentQuery

IsPrefix(s, t) == Len(s) <= Len(t) /\ SubSeq(t, 1, Len(s)) = s

\* C27: messages is append-only across a turn: the messages a stage was
\* entered with are a prefix of the messages it leaves, and the first
\* message of the state process_query returns is the USER message of the
\* query
C27_AppendOnly ==
    /\ (pc # "idle" /\ ~GraphFailed) => IsPrefix(entry.messages, state.messages)
    /\ Returned
          => /\ state.messages # <<>>
             /\ state.messages[1] = Message(MessageRole.USER, args.query)

C27_Witness ==
    /\ Returned
    /\ ~GraphFailed
    /\ Len(state.messages) = 4
    /\ Len(entry.messages) = 3
    /\ state.messages[1] = Message(MessageRole.USER, WeatherQuery)

\* C28: in every state process_query returns, queryType UNKNOWN implies a
\* non-null errorMessage, and a null errorMessage implies queryType WEATHER
\* or RAG
C28_UnknownMeansError ==
    Returned
        => /\ (state.query_type = QueryType.UNKNOWN
                  => state.error_message # None)
           /\ (state.error_message = None
                  => state.query_type \in {QueryType.WEATHER, QueryType.RAG})

C28_Witness ==
    /\ Returned
    /\ ~GraphFailed
    /\ CallsNamed("llm.classify_query") # <<>>
    /\ CallsNamed("llm.classify_query")[1].val = s_unknown
    /\ state.query_type = QueryType.RAG
    /\ state.error_message = None

(***************************************************************************)
(* clear_processing_data called on any state, once and once more           *)
(***************************************************************************)
InitClear ==
    /\ pc = "start"
    /\ state \in StageInputs
    /\ entry = state
    /\ args = [query |-> state.current_query, session_id |-> state.session_id,
               user_id |-> state.user_id]
    /\ calls = <<>>
    /\ raised = None
    /\ stages = <<>>
    /\ decision = <<>>
    /\ ret = None
    /\ clock = <<>>

\* AssistantState.clear_processing_data called on the state
CallClearProcessingData ==
    /\ pc = "start"
    /\ entry' = state
    /\ state' = clear_processing_data(state)
    /\ pc' = "cleared"
    /\ UNCHANGED <<args, calls, raised, stages, decision, ret, clock>>

\* and called once more on the state it left
CallClearProcessingDataAgain ==
    /\ pc = "cleared"
    /\ entry' = state
    /\ state' = clear_processing_data(state)
    /\ pc' = "cleared_again"
    /\ UNCHANGED <<args, calls, raised, stages, decision, ret, clock>>

NextClear == CallClearProcessingData \/ CallClearProcessingDataAgain

SpecClear == InitClear /\ [][NextClear]_vars

\* C29: clear_processing_data sets weatherData, ragResult, errorMessage and
\* processingTime to null and leaves messages, currentQuery, queryType,
\* sessionId and userId unchanged; applied a second time it changes nothing
C29_ClearProcessingData ==
    /\ pc \in {"cleared", "cleared_again"}
          => /\ state.weather_data = None
             /\ state.rag_result = None
             /\ state.error_message = None
             /\ state.processing_time = None
             /\ state.messages = entry.messages
             /\ state.current_query = entry.current_query
             /\ state.query_type = entry.query_type
             /\ state.session_id = entry.session_id
             /\ state.user_id = entry.user_id
    /\ pc = "cleared_again" => state = entry

C29_Witness ==
    /\ pc = "cleared_again"
    /\ args.query = WeatherQuery
    /\ state.query_type = QueryType.RAG
    /\ Len(state.messages) = 2
    /\ state.error_message = None

\* the orders in which the stages of a completed turn can have run
StageOrders ==
    {<<"router", "final_response">>,
     <<"router", "weather_node", "final_response">>,
     <<"router", "rag_node", "final_response">>}

WeatherCallRank(name) ==
    CASE name = "llm.extract_city" -> 1
      [] name = "geocoding" -> 2
      [] name = "weather" -> 3
      [] name = "llm.summarize_weather_data" -> 4
      [] OTHER -> 0

\* the log of the weather stage's external calls
WeatherCalls == SelectSeq(calls, LAMBDA c : WeatherCallRank(c.call) > 0)

\* the calls are logged in the order of the stage, each at most once
WeatherCallsInOrder ==
    \A i, j \in DOMAIN WeatherCalls :
        i < j => WeatherCallRank(WeatherCalls[i].call)
                     < WeatherCallRank(WeatherCalls[j].call)

ExtractionCalled == CallsNamed("llm.extract_city") # <<>>

\* the weather request failed, or the provider answered with an error
FetchFailed ==
    /\ CallsNamed("weather") # <<>>
    /\ LET w == CallsNamed("weather")[1]
       IN  ~w.ok \/ w.val.cod # 200

\* C31 (as claimed): the external calls of a weather turn are made in the
\* order extraction, geocoding, weather fetch, summarization, each at most
\* once, and no call of the stage follows an extraction call that failed or
\* a fetch that failed
C31_FailureEndsStage ==
    /\ WeatherCallsInOrder
    /\ (ExtractionCalled /\ ~CallsNamed("llm.extract_city")[1].ok)
           => Len(WeatherCalls) = 1
    /\ FetchFailed => CallsNamed("llm.summarize_weather_data") = <<>>

\* C31 (amended): the external calls of a weather turn are made in the order
\* extraction, geocoding, weather fetch, summarization, each at most once;
\* no call of the stage follows an extraction that yields no location
\* (whether the LLM or, after the LLM call failed, the regex fallback gave
\* it) or a fetch that failed
C31_SequentialCalls ==
    /\ WeatherCallsInOrder
    /\ (ExtractionCalled /\ ~Truthy(ExtractedCity))
           => Len(WeatherCalls) = 1
    /\ FetchFailed => CallsNamed("llm.summarize_weather_data") = <<>>

\* the LLM call of the extraction failed, the fallback found a location and
\* the stage went on to geocoding (which failed), the fetch and the summary
C31_Witness ==
    /\ StageRan("weather_node")
    /\ ~CallsNamed("llm.extract_city")[1].ok
    /\ Truthy(ExtractedCity)
    /\ CallsNamed("geocoding") # <<>>
    /\ ~CallsNamed("geocoding")[1].ok
    /\ Len(WeatherCalls) = 4

(***************************************************************************)
(* WeatherTool.extract_city_from_query and _extract_location_regex called  *)
(* on their own                                                            *)
(***************************************************************************)
InitExtract ==
    /\ pc = "start"
    /\ args \in [query : ExtractionQueries, llm : LlmOutcomes(LocationAnswers)]
    /\ state = AssistantState(EmptyStr, None, None, None)
    /\ entry = state
    /\ calls = <<>>
    /\ raised = None
    /\ stages = <<>>
    /\ decision = <<>>
    /\ ret = None
    /\ clock = <<>>

\* WeatherTool.extract_city_from_query called on the query
CallExtractCityFromQuery ==
    /\ pc = "start"
    /\ LET e == extract_city_from_query(args.query, args.llm)
       IN  /\ ret' = Some(e.city)
           /\ calls' = e.calls
    /\ pc' = "extracted"
    /\ UNCHANGED <<state, entry, args, raised, stages, decision, clock>>

\* WeatherTool._extract_location_regex called on the query
CallExtractLocationRegex ==
    /\ pc = "start"
    /\ ret' = Some(extract_location_regex(args.query))
    /\ pc' = "matched"
    /\ UNCHANGED <<state, entry, args, calls, raised, stages, decision, clock>>

NextExtract == CallExtractCityFromQuery \/ CallExtractLocationRegex

SpecExtract == InitExtract /\ [][NextExtract]_vars

Extracted == pc = "extracted"

\* the answers that stand for "no location", line 61
NoLocationAnswers == {s_none, s_no_location, s_unknown, EmptyStr}

FallbackConsulted == CallsNamed("regex_fallback") # <<>>

\* C32: extract_city_from_query consults the regex fallback if and only if
\* the LLM call fails; an answer of the LLM that is, trimmed and lower-cased,
\* "none", "no location", "unknown" or "" gives null, any other answer is
\* returned trimmed and lower-cased, and when the LLM call fails the result
\* is what _extract_location_regex returns for the query
C32_FallbackIffLlmFails ==
    Extracted =>
        /\ Len(CallsNamed("llm.extract_city")) = 1
        /\ FallbackConsulted <=> ~args.llm.ok
        /\ args.llm.ok =>
               LET location == Lower(Strip(args.llm.val))
               IN  ret[1] = IF location \in NoLocationAnswers
                            THEN None ELSE Some(location)
        /\ ~args.llm.ok => ret[1] = extract_location_regex(args.query)

\* the LLM answered " NONE" to a query in which the fallback finds a
\* location, and the extraction returned null
C32_Witness ==
    /\ Extracted
    /\ args.llm = Ok(<<" ", "N", "O", "N", "E">>)
    /\ extract_location_regex(args.query) # None
    /\ ret = Some(None)

Matched == pc = "matched"

\* the X of a query "X weather", as the pattern r"([^?]+)\s+weather"
\* captures it from the lower-cased query
TrailingFragment(query) ==
    PatternLocation(Strip(CollapseSpaces(Lower(query))), location_patterns[6])

\* C33 (as claimed): the regex fallback, having stripped the weather keywords
\* from the lower-cased query, returns the fragment captured by the first
\* matching pattern: "in Paris" gives "paris", and a query "X weather"
\* without a preposition is resolved by the pattern "X weather", which
\* captures the lower-cased X
C33_FirstMatchingPattern ==
    Matched =>
        /\ args.query = InParisQuery => ret[1] = Some(s_paris)
        /\ args.query \in {ParisWeatherQuery, MarinaBeachQuery}
               => /\ LocationFound(args.query).rule = "X weather"
                  /\ ret[1] = TrailingFragment(args.query)

(***************************************************************************)
(* Geocoding failures in a turn                                            *)
(***************************************************************************)
\* the geocoding request of the turn raised or returned no feature
GeocodingGaveNothing ==
    /\ CallsNamed("geocoding") # <<>>
    /\ LET g == CallsNamed("geocoding")[1]
       IN  ~g.ok \/ g.val = <<>>

\* the turn returned from the graph after a weather stage in which the
\* fetch and the summarization succeeded
WeatherTurnSucceeded ==
    /\ Returned
    /\ ~GraphFailed
    /\ CallsNamed("weather") # <<>>
    /\ CallsNamed("weather")[1].ok
    /\ CallsNamed("weather")[1].val.cod = 200
    /\ Summarized("llm.summarize_weather_data")

\* C34: a turn in which geocoding raises or returns no features, while
\* extraction, weather fetch and summarization succeed, returns errorMessage
\* null and weatherData populated, weatherData.city being the extracted
\* location even when the coordinates used are the default pair
C34_GeocodingAbsorbed ==
    (WeatherTurnSucceeded /\ GeocodingGaveNothing)
        => /\ state.error_message = None
           /\ state.weather_data # None
           /\ state.weather_data[1].city = ExtractedCity[1]

\* geocoding raised for "atlantis", the weather was fetched for the default
\* coordinates of Mumbai and the returned weatherData names atlantis
C34_Witness ==
    /\ WeatherTurnSucceeded
    /\ GeocodingGaveNothing
    /\ ~CallsNamed("geocoding")[1].ok
    /\ ExtractedCity = Some(<<"a", "t", "l", "a", "n", "t", "i", "s">>)
    /\ CallsNamed("weather")[1].coords = DefaultCoordinates
    /\ state.weather_data # None
    /\ state.weather_data[1].city = <<"a", "t", "l", "a", "n", "t", "i", "s">>

(***************************************************************************)
(* WeatherTool.get_weather_data called on its own                          *)
(***************************************************************************)
CoordinatePairs == {DefaultCoordinates, <<515074, -1278>>}

InitFetch ==
    /\ pc = "start"
    /\ args \in [city : CityNames, coords : CoordinatePairs,
                 http : HttpOutcomes]
    /\ state = AssistantState(EmptyStr, None, None, None)
    /\ entry = state
    /\ calls = <<>>
    /\ raised = None
    /\ stages = <<>>
    /\ decision = <<>>
    /\ ret = None
    /\ clock = <<>>

\* WeatherTool.get_weather_data called on the city and its coordinates
CallGetWeatherData ==
    /\ pc = "start"
    /\ LET w == get_weather_data(args.city, args.coords, args.http)
       IN  /\ ret' = Some(w.data)
           /\ calls' = w.calls
    /\ pc' = "fetched"
    /\ UNCHANGED <<state, entry, args, raised, stages, decision, clock>>

NextFetch == CallGetWeatherData

SpecFetch == InitFetch /\ [][NextFetch]_vars

Fetched == pc = "fetched"

StartsWith(text, head) ==
    /\ Len(head) <= Len(text)
    /\ SubSeq(text, 1, Len(head)) = head

\* C36: get_weather_data never raises and never retries: it makes exactly
\* one request and, when the request or the parsing of its answer fails,
\* returns a record that holds an "error" entry with the cause (as a network
\* error when the transport failed) and no weather field
C36_OneRequestNoRaise ==
    Fetched =>
        /\ raised = None
        /\ Len(calls) = 1
        /\ calls[1].call = "weather"
        /\ ~args.http.ok =>
               /\ DOMAIN ret[1] = {"error"}
               /\ EndsWith(ret[1].error, args.http.val)
               /\ args.http.kind = "request"
                      => StartsWith(ret[1].error, <<"Network error: ">>)

\* the request failed in the transport and the record holds the network
\* error only
C36_Witness ==
    /\ Fetched
    /\ ~args.http.ok
    /\ args.http.kind = "request"
    /\ ret = Some([error |-> <<"Network error: ">> \o args.http.val])

(***************************************************************************)
(* processingTime in a turn                                                *)
(***************************************************************************)
\* the elapsed time the stage measured in the turn
MeasuredBy(name) == SelectSeq(clock, LAMBDA m : m.stage = name)[1].dt

\* a resolver stage ran in the turn
ResolverRan(name) == \E i \in DOMAIN stages : stages[i] = name

\* the resolver ran to its end: its last call, the summarization, returned
ResolverCompleted(name) ==
    /\ ResolverRan(name)
    /\ Summarized(IF name = "weather_node"
                  THEN "llm.summarize_weather_data"
                  ELSE "llm.summarize_rag_results")

SearchesUseContextProfile ==
    \A i \in DOMAIN calls :
        calls[i].call = "qdrant.search"
            => calls[i].limit = 3 /\ calls[i].score_threshold = 60

AtMostThreeChunks ==
    state.rag_result # None => Len(state.rag_result[1].relevant_chunks) <= 3

\* C38 (as claimed): a turn that runs the retrieval stage makes exactly one
\* embedding call and exactly one search, the search with limit 3 and score
\* threshold 0.6, and relevantChunks has at most 3 entries
C38_OneEmbeddingOneSearch ==
    ResolverRan("rag_node") =>
        /\ Len(CallsNamed("embeddings")) = 1
        /\ Len(CallsNamed("qdrant.search")) = 1
        /\ SearchesUseContextProfile
        /\ AtMostThreeChunks

\* C38 (amended): a turn that runs the retrieval stage makes exactly one
\* embedding call and, when that call succeeds, exactly one search (none
\* when it fails); the search has limit 3 and score threshold 0.6, and
\* relevantChunks has at most 3 entries
C38_OneSearchAfterEmbedding ==
    ResolverRan("rag_node") =>
        /\ Len(CallsNamed("embeddings")) = 1
        /\ Len(CallsNamed("qdrant.search"))
               = (IF CallsNamed("embeddings")[1].ok THEN 1 ELSE 0)
        /\ SearchesUseContextProfile
        /\ AtMostThreeChunks

\* four documents match in the store, the search returned three of them and
\* relevantChunks holds the three
C38_Witness ==
    /\ ResolverRan("rag_node")
    /\ CallsNamed("qdrant.search") # <<>>
    /\ CallsNamed("qdrant.search")[1].val = <<DocA, DocB, DocC>>
    /\ state.rag_result # None
    /\ Len(state.rag_result[1].relevant_chunks) = 3

(***************************************************************************)
(* The generic fallback in a turn                                          *)
(***************************************************************************)
GenericFallbackProduced ==
    \E i \in DOMAIN state.messages :
        /\ state.messages[i].role = MessageRole.ASSISTANT
        /\ state.messages[i].content = GenericResponse

\* C39 (as claimed): no turn run by process_query produces the generic
\* fallback message of Response Synthesis, whatever the external calls
\* return, an empty summary of the LLM included
C39_NoGenericFallback == Returned => ~GenericFallbackProduced

(***************************************************************************)
(* Two process_query calls on one AssistantGraph, interleaved at the       *)
(* external calls.  Here pc, state, args, calls and ret hold one value per *)
(* turn; ret[t] is the stage turn t is suspended in: the state the stage   *)
(* will leave and the external calls that have not returned yet.           *)
(***************************************************************************)
Turns == {1, 2}

TurnQueries == <<WeatherQuery, DocumentQuery>>

TurnSessionIds == <<Some("session-1"), Some("session-2")>>

TurnUserIds == <<Some("user-1"), Some("user-2")>>

\* the outcomes of the external calls of one turn
TurnWeatherInputs ==
    {x \in WeatherInputs :
        /\ x.extract \in {Ok(<<"L", "o", "n", "d", "o", "n">>)}
                             \cup {Fail(c) : c \in Causes}
        /\ x.has_key
        /\ x.geo = Ok(<<>>)
        /\ x.http \in {[ok |-> TRUE, val |-> ProviderOk, kind |-> "response"]}
                          \cup {[ok |-> FALSE, val |-> c, kind |-> "request"] :
                                    c \in Causes}
        /\ x.summary = Ok(<<"Here is what I found.">>)
        /\ x.dt = 0}

TurnRagInputs ==
    {y \in RagInputs :
        /\ y.embed.ok
        /\ y.search = Ok(<<DocA>>)
        /\ y.summary \in {Ok(<<"Here is what I found.">>)}
                             \cup {Fail(c) : c \in Causes}
        /\ y.dt = 0}

TurnArgs(t) ==
    [query : {TurnQueries[t]}, session_id : {TurnSessionIds[t]},
     user_id : {TurnUserIds[t]},
     classify : {Ok(s_weather), Ok(s_rag)},
     dt : {0}, x : TurnWeatherInputs, y : TurnRagInputs]

\* one state object for every turn, as if the graph kept it
StateOf_Shared(t) == 1

\* process_query, lines 89-93: each call builds the AssistantState it works
\* on; StateOf(t) is the state object of turn t
StateOf(t) == t

\* the node of the graph applied to the state, a holding the outcomes of the
\* turn's external calls
RunNode(name, s, a) ==
    CASE name = "router" -> route_query(s, a.classify, a.dt)
      [] name = "weather_node" -> process_weather_query(s, a.x)
      [] name = "rag_node" -> process_rag_query(s, a.y)
      [] name = "final_response" -> generate_final_response(s)

\* the edges of the graph: the node that follows
NodeAfter(name, s) ==
    IF name = "router" THEN RouteToNextNode(s)
    ELSE IF name = "final_response" THEN "returned"
    ELSE "final_response"

\* the state process_query returns when the turn runs alone
RunAlone(a) ==
    LET s0 == InitialState(a.query, a.session_id, a.user_id)
        s1 == RunNode("router", s0, a).state
        n  == NodeAfter("router", s1)
        s2 == IF n = "final_response" THEN s1 ELSE RunNode(n, s1, a).state
    IN  RunNode("final_response", s2, a).state

InitTurns ==
    /\ pc = [t \in Turns |-> "idle"]
    /\ state = [t \in Turns |-> AssistantState(EmptyStr, None, None, None)]
    /\ args \in [Turns -> UNION {TurnArgs(t) : t \in Turns}]
    /\ \A t \in Turns : args[t] \in TurnArgs(t)
    /\ calls = [t \in Turns |-> <<>>]
    /\ ret = [t \in Turns |-> None]
    /\ entry = state
    /\ raised = None
    /\ stages = <<>>
    /\ decision = <<>>
    /\ clock = <<>>

\* process_query, lines 88-93: turn t builds its state
BeginTurn(t) ==
    /\ pc[t] = "idle"
    /\ state' = [state EXCEPT ![StateOf(t)] =
                    InitialState(args[t].query, args[t].session_id,
                                 args[t].user_id)]
    /\ pc' = [pc EXCEPT ![t] = "router"]
    /\ UNCHANGED <<entry, args, calls, raised, stages, decision, ret, clock>>

\* turn t enters a node that makes external calls
EnterNode(t) ==
    /\ pc[t] \in {"router", "weather_node", "rag_node"}
    /\ ret[t] = None
    /\ LET r == RunNode(pc[t], state[StateOf(t)], args[t])
       IN  ret' = [ret EXCEPT ![t] = Some([state |-> r.state,
                                           pending |-> r.calls])]
    /\ UNCHANGED <<pc, state, entry, args, calls, raised, stages, decision,
                   clock>>

\* the entries of the log that the next external call to return brings: the
\* call, and the regex fallback taken in its place when it failed
ReturningCalls(pending) ==
    IF Len(pending) > 1 /\ pending[2].call = "regex_fallback"
    THEN SubSeq(pending, 1, 2)
    ELSE SubSeq(pending, 1, 1)

\* an external call of turn t returns: the turn was suspended on it
CallReturns(t) ==
    /\ ret[t] # None
    /\ ret[t][1].pending # <<>>
    /\ LET done == ReturningCalls(ret[t][1].pending)
       IN  /\ calls' = [calls EXCEPT ![t] = calls[t] \o done]
           /\ ret' = [ret EXCEPT ![t] =
                         Some([ret[t][1] EXCEPT !.pending =
                                   SubSeq(ret[t][1].pending, Len(done) + 1,
                                          Len(ret[t][1].pending))])]
    /\ UNCHANGED <<pc, state, entry, args, raised, stages, decision, clock>>

\* the node of turn t returns its state and the graph moves on
LeaveNode(t) ==
    /\ ret[t] # None
    /\ ret[t][1].pending = <<>>
    /\ state' = [state EXCEPT ![StateOf(t)] = ret[t][1].state]
    /\ pc' = [pc EXCEPT ![t] = NodeAfter(pc[t], ret[t][1].state)]
    /\ ret' = [ret EXCEPT ![t] = None]
    /\ UNCHANGED <<entry, args, calls, raised, stages, decision, clock>>

\* Response Synthesis of turn t, which makes no external call, and the
\* return of process_query
FinishTurn(t) ==
    /\ pc[t] = "final_response"
    /\ state' = [state EXCEPT ![StateOf(t)] =
                    RunNode("final_response", state[StateOf(t)],
                            args[t]).state]
    /\ pc' = [pc EXCEPT ![t] = "returned"]
    /\ UNCHANGED <<entry, args, calls, raised, stages, decision, ret, clock>>

NextTurns ==
    \E t \in Turns :
        \/ BeginTurn(t)
        \/ EnterNode(t)
        \/ CallReturns(t)
        \/ LeaveNode(t)
        \/ FinishTurn(t)

SpecTurns == InitTurns /\ [][NextTurns]_vars

\* the state process_query returned to the caller of turn t
ReturnedState(t) == state[StateOf(t)]

OtherTurn(t) == 3 - t

\* nothing of turn u is in the state s
NothingOf(u, s) ==
    /\ \A i \in DOMAIN s.messages : s.messages[i].content # args[u].query
    /\ s.current_query # args[u].query
    /\ s.session_id # args[u].session_id
    /\ s.user_id # args[u].user_id
    /\ s.rag_result # None => s.rag_result[1].query # args[u].query

\* C35: two process_query calls on one AssistantGraph, interleaved at their
\* external calls, do not interfere: the state each returns is the state it
\* returns when run alone with the same external responses, and it holds no
\* message, query or identifier of the other turn
C35_NoInterference ==
    \A t \in Turns :
        pc[t] = "returned"
            => /\ ReturnedState(t) = RunAlone(args[t])
               /\ NothingOf(OtherTurn(t), ReturnedState(t))

\* turn 1 ran from its first external call to its return, with a weather
\* answer, while turn 2 was suspended in its retrieval stage with the
\* embedding done and the search still to return
C35_Witness ==
    /\ pc[1] = "returned"
    /\ state[1].weather_data # None
    /\ ReturnedState(1) = RunAlone(args[1])
    /\ pc[2] = "rag_node"
    /\ ret[2] # None
    /\ \E i \in DOMAIN calls[2] : calls[2][i].call = "embeddings"
    /\ ret[2][1].pending # <<>>

====
